---- MODULE Spec2Model ----
(***************************************************************************)
(* Model of the Nifty AI trading dashboard backend: the in-memory store    *)
(* (server/storage.ts), the REST handlers (server/routes.ts), the signal   *)
(* generator, the notification sender and the market-data accessor         *)
(* (server/services).                                                      *)
(*                                                                         *)
(* Node runs one event loop.  A handler or a generator cycle runs until it *)
(* awaits real I/O (a fetch); awaits of already resolved promises only     *)
(* pass through the microtask queue and let no other request or timer in.  *)
(* The variable "running" holds the cycle that currently owns the event    *)
(* loop (0 when the loop is idle).                                         *)
(***************************************************************************)
EXTENDS Integers, Sequences, FiniteSets, Bags, TLC

VARIABLES
    zerodhaLive,            \* ZerodhaService has apiKey and accessToken
    whatsappLive,           \* WhatsAppService has accessToken and phoneNumberId
    users,                  \* MemStorage.users, in Map insertion order
    whatsappUsers,          \* MemStorage.whatsappUsers, in Map insertion order
    tradingSignals,         \* MemStorage.tradingSignals, in Map insertion order
    portfolioPositions,     \* MemStorage.portfolioPositions
    currentUserId,
    currentWhatsappUserId,
    currentSignalId,
    currentPositionId,
    reqSession,             \* req.session of the last handled request, at its end
    loggedIn,               \* history: a login succeeded and no logout followed
    resp,                   \* the HTTP response the last step sent, if any
    welcomed,               \* history: recipients of sendWelcomeMessage
    posts,                  \* the POST /api/whatsapp/users handlers that await
                            \* their welcome fetch: the ids of their records
    cycles,                 \* the generateSignals() invocations started so far
    running,                \* the cycle that owns the event loop, 0 if idle
    attempts,               \* history: bag of sendTradingSignal calls, each with
                            \* the stored flag of its recipient at the call
    now,                    \* the clock (ms) as last read by new Date()
    calc                    \* the last call of a pure service function

vars == <<zerodhaLive, whatsappLive, users, whatsappUsers, tradingSignals,
          portfolioPositions, currentUserId, currentWhatsappUserId,
          currentSignalId, currentPositionId, reqSession, loggedIn, resp,
          welcomed, posts, cycles, running, attempts, now, calc>>

storeVars == <<users, whatsappUsers, tradingSignals, portfolioPositions,
               currentUserId, currentWhatsappUserId, currentSignalId,
               currentPositionId>>

configVars == <<zerodhaLive, whatsappLive>>

genVars == <<cycles, running, attempts, now>>

----------------------------------------------------------------------------
(* Bounds of the model *)

MaxSubscribers == 2     \* subscriber records created in one run
MaxSignals == 2         \* signal records created in one run
MaxCycles == 2          \* timer ticks in one run
MaxTime == 1            \* clock values 0..MaxTime
MaxUsers == 2           \* user records, the seeded one included
MaxPositions == 1       \* position records created in one run

----------------------------------------------------------------------------
(* Strings.  A string is named by a TLA+ string and Chars gives its text:  *)
(* a sequence of characters, a printable ASCII character standing for      *)
(* itself and any other character being named "U+" and six hex digits.     *)

Digits == {"0", "1", "2", "3", "4", "5", "6", "7", "8", "9"}

PhoneSet == {"+919876543210", "9123456780", "12345"}

\* The path parameters of the DELETE requests: plain numbers, escaped ones
\* (upper and lower case, and an escaped digit), a lone "%", escapes that
\* spell no UTF-8 encoding and one that spells U+00E9
ParamSet ==
    PhoneSet \cup {"%2B919876543210", "%2b919876543210", "%39123456780", "%",
                   "%FF", "%C3", "%C3%A9"}

\* The phone numbers of the requests that run beside the generator
GenPhones == {"+919876543210", "9123456780"}

Chars(s) ==
    CASE s = "+919876543210" ->
           <<"+", "9", "1", "9", "8", "7", "6", "5", "4", "3", "2", "1", "0">>
      [] s = "9123456780" ->
           <<"9", "1", "2", "3", "4", "5", "6", "7", "8", "0">>
      [] s = "12345" -> <<"1", "2", "3", "4", "5">>
      [] s = "%2B919876543210" ->
           <<"%", "2", "B", "9", "1", "9", "8", "7", "6", "5", "4", "3", "2", "1", "0">>
      [] s = "%2b919876543210" ->
           <<"%", "2", "b", "9", "1", "9", "8", "7", "6", "5", "4", "3", "2", "1", "0">>
      [] s = "%39123456780" ->
           <<"%", "3", "9", "1", "2", "3", "4", "5", "6", "7", "8", "0">>
      [] s = "%" -> <<"%">>
      [] s = "%FF" -> <<"%", "F", "F">>
      [] s = "%C3" -> <<"%", "C", "3">>
      [] s = "%C3%A9" -> <<"%", "C", "3", "%", "A", "9">>

\* phoneNumber.replace(/\D/g, '')
StripNonDigits(t) == SelectSeq(t, LAMBDA c : c \in Digits)

\* /^(\+91|91)?[6-9]\d{9}$/.test(t)
MobileBody(t) ==
    /\ Len(t) = 10
    /\ t[1] \in {"6", "7", "8", "9"}
    /\ \A i \in 2..10 : t[i] \in Digits

RegexIndianMobile(t) ==
    \/ MobileBody(t)
    \/ Len(t) = 12 /\ t[1] = "9" /\ t[2] = "1" /\ MobileBody(SubSeq(t, 3, 12))
    \/ Len(t) = 13 /\ t[1] = "+" /\ t[2] = "9" /\ t[3] = "1"
                   /\ MobileBody(SubSeq(t, 4, 13))

\* The accepted pattern of the documentation, applied as the code's comment
\* says it is: strip the non-digits, then test the pattern.
AcceptedPattern(p) == RegexIndianMobile(StripNonDigits(Chars(p)))

\* validatePhoneNumber is declared async: the caller gets a Promise object
\* that wraps the result of the test.
validatePhoneNumber(p) == [type |-> "Promise", value |-> AcceptedPattern(p)]

\* JavaScript truthiness of the values the handlers negate.
Truthy(v) ==
    CASE v.type = "boolean" -> v.value
      [] v.type = "Promise" -> TRUE
      [] v.type = "undefined" -> FALSE

HexUpper == <<"0", "1", "2", "3", "4", "5", "6", "7", "8", "9",
              "A", "B", "C", "D", "E", "F">>

HexLower == <<"0", "1", "2", "3", "4", "5", "6", "7", "8", "9",
              "a", "b", "c", "d", "e", "f">>

\* The digits of an escape, in either case
HexDigits == {HexUpper[i] : i \in 1..16} \cup {HexLower[i] : i \in 1..16}

HexValue(c) == (CHOOSE i \in 1..16 : HexUpper[i] = c \/ HexLower[i] = c) - 1

\* The characters with the codes 32..126 (the grave accent, code 96, by
\* its name)
Ascii ==
    <<" ", "!", "\"", "#", "$", "%", "&", "'", "(", ")", "*", "+",
      ",", "-", ".", "/", "0", "1", "2", "3", "4", "5", "6", "7",
      "8", "9", ":", ";", "<", "=", ">", "?", "@", "A", "B", "C",
      "D", "E", "F", "G", "H", "I", "J", "K", "L", "M", "N", "O",
      "P", "Q", "R", "S", "T", "U", "V", "W", "X", "Y", "Z", "[",
      "\\", "]", "^", "_", "U+000060", "a", "b", "c", "d", "e", "f", "g",
      "h", "i", "j", "k", "l", "m", "n", "o", "p", "q", "r", "s",
      "t", "u", "v", "w", "x", "y", "z", "{", "|", "}", "~">>

\* The character with code point cp: itself when it is printable ASCII,
\* named "U+" and six hex digits otherwise
CharOf(cp) ==
    IF cp \in 32..126 THEN Ascii[cp - 31]
    ELSE "U+" \o HexUpper[((cp \div 1048576) % 16) + 1]
              \o HexUpper[((cp \div 65536) % 16) + 1]
              \o HexUpper[((cp \div 4096) % 16) + 1]
              \o HexUpper[((cp \div 256) % 16) + 1]
              \o HexUpper[((cp \div 16) % 16) + 1]
              \o HexUpper[(cp % 16) + 1]

\* t has "%" and two hex digits at i
IsEscape(t, i) ==
    /\ i + 2 <= Len(t)
    /\ t[i] = "%"
    /\ t[i + 1] \in HexDigits
    /\ t[i + 2] \in HexDigits

\* The byte the escape at i stands for
ByteAt(t, i) == 16 * HexValue(t[i + 1]) + HexValue(t[i + 2])

\* The number of bytes of the UTF-8 sequence that the byte b leads, 0 when
\* no sequence starts with b
Utf8Length(b) ==
    IF b < 128 THEN 1
    ELSE IF b \in 194..223 THEN 2
    ELSE IF b \in 224..239 THEN 3
    ELSE IF b \in 240..244 THEN 4
    ELSE 0

\* The escapes at i carry one well-formed UTF-8 sequence of n bytes: every
\* byte after the first is an escape in 0x80..0xBF, and the second byte
\* rules out overlong forms, surrogates and code points above U+10FFFF
Utf8WellFormed(t, i, n) ==
    /\ n > 0
    /\ \A k \in 1..(n - 1) :
          IsEscape(t, i + 3 * k) /\ ByteAt(t, i + 3 * k) \in 128..191
    /\ n > 1 =>
          LET b0 == ByteAt(t, i)
              b1 == ByteAt(t, i + 3)
          IN /\ b0 = 224 => b1 >= 160
             /\ b0 = 237 => b1 <= 159
             /\ b0 = 240 => b1 >= 144
             /\ b0 = 244 => b1 <= 143

\* The code point of the well-formed sequence of n bytes at i
Utf8CodePoint(t, i, n) ==
    LET b0 == ByteAt(t, i)
    IN CASE n = 1 -> b0
         [] n = 2 -> (b0 - 192) * 64 + (ByteAt(t, i + 3) - 128)
         [] n = 3 -> (b0 - 224) * 4096 + (ByteAt(t, i + 3) - 128) * 64
                     + (ByteAt(t, i + 6) - 128)
         [] n = 4 -> (b0 - 240) * 262144 + (ByteAt(t, i + 3) - 128) * 4096
                     + (ByteAt(t, i + 6) - 128) * 64 + (ByteAt(t, i + 9) - 128)

\* decodeURIComponent: every escape sequence is replaced by the character
\* whose UTF-8 encoding it spells; a "%" that starts no escape, and escapes
\* that spell no UTF-8 encoding, throw URIError (modelled as <<"URIError">>)
RECURSIVE DecodeFrom(_, _)
DecodeFrom(t, i) ==
    IF i > Len(t) THEN <<>>
    ELSE IF t[i] # "%" THEN
        LET rest == DecodeFrom(t, i + 1)
        IN IF rest = <<"URIError">> THEN rest ELSE <<t[i]>> \o rest
    ELSE IF ~IsEscape(t, i) THEN <<"URIError">>
    ELSE
        LET n == Utf8Length(ByteAt(t, i))
        IN IF ~Utf8WellFormed(t, i, n) THEN <<"URIError">>
           ELSE LET rest == DecodeFrom(t, i + 3 * n)
                IN IF rest = <<"URIError">> THEN rest
                   ELSE <<CharOf(Utf8CodePoint(t, i, n))>> \o rest

decodeURIComponent(s) == DecodeFrom(Chars(s), 1)

----------------------------------------------------------------------------
(* MemStorage *)

NoUser == [id |-> 0, username |-> "", password |-> ""]

NoSession == [userId |-> 0, username |-> ""]

Undefined == "undefined"

\* Array.from(map.values()).find(pred): the first record in insertion order
\* among the positions the predicate holds at, 0 for undefined
FirstIndex(hits) ==
    IF hits = {} THEN 0 ELSE CHOOSE i \in hits : \A j \in hits : i <= j

\* Variant: the lookup ignores the name
getUserByUsernameFirst(us, username) == us[1]

getUserByUsername(us, username) ==
    LET i == FirstIndex({k \in 1..Len(us) : us[k].username = username})
    IN IF i = 0 THEN NoUser ELSE us[i]

\* createUser: id = currentUserId++, users.set(id, user)
createUser(us, nextId, insertUser) ==
    [users |-> Append(us, [id |-> nextId, username |-> insertUser.username,
                           password |-> insertUser.password]),
     currentUserId |-> nextId + 1]

\* Variant: the read ignores the flag
getAllWhatsappUsersUnfiltered(ws) == ws

\* getAllWhatsappUsers: the records whose isActive is set, in insertion order
getAllWhatsappUsers(ws) == SelectSeq(ws, LAMBDA u : u.isActive)

\* Variant: the allocator is read and not advanced
addWhatsappUserSameId(ws, nextId, phoneNumber) ==
    [whatsappUsers |-> Append(ws, [id |-> nextId, phoneNumber |-> phoneNumber,
                                   isActive |-> TRUE]),
     currentWhatsappUserId |-> nextId]

\* addWhatsappUser: id = currentWhatsappUserId++, isActive: true
addWhatsappUser(ws, nextId, phoneNumber) ==
    [whatsappUsers |-> Append(ws, [id |-> nextId, phoneNumber |-> phoneNumber,
                                   isActive |-> TRUE]),
     currentWhatsappUserId |-> nextId + 1]

\* removeWhatsappUser: find the first record with that phone number, in
\* insertion order and whatever its flag, and clear its flag.
removeWhatsappUser(ws, text) ==
    LET i == FirstIndex({k \in 1..Len(ws) : Chars(ws[k].phoneNumber) = text})
    IN IF i = 0 THEN [whatsappUsers |-> ws, found |-> FALSE]
       ELSE [whatsappUsers |-> [ws EXCEPT ![i].isActive = FALSE], found |-> TRUE]

\* Array.prototype.sort((a, b) => b.createdAt - a.createdAt): stable,
\* newest first.  x is placed behind every element that is not older.
InsertNewestFirst(sorted, x) ==
    LET k == Cardinality({i \in 1..Len(sorted) : sorted[i].createdAt >= x.createdAt})
    IN SubSeq(sorted, 1, k) \o <<x>> \o SubSeq(sorted, k + 1, Len(sorted))

RECURSIVE SortNewestFirst(_)
SortNewestFirst(s) ==
    IF s = <<>> THEN <<>>
    ELSE InsertNewestFirst(SortNewestFirst(SubSeq(s, 1, Len(s) - 1)), s[Len(s)])

\* Variant: the filter without the sort
getAllActiveSignalsUnsorted(ss) == SelectSeq(ss, LAMBDA s : s.isActive)

\* getAllActiveSignals: filter on isActive, then sort on createdAt
getAllActiveSignals(ss) == SortNewestFirst(SelectSeq(ss, LAMBDA s : s.isActive))

\* Variant: a new signal is stored as already notified
createTradingSignalMarked(ss, nextId, insertSignal, time) ==
    [tradingSignals |-> Append(ss, [id |-> nextId,
                                    confidence |-> insertSignal.confidence,
                                    isActive |-> TRUE, whatsappSent |-> TRUE,
                                    createdAt |-> time]),
     currentSignalId |-> nextId + 1]

\* createTradingSignal: id = currentSignalId++, isActive: true,
\* whatsappSent: false
createTradingSignal(ss, nextId, insertSignal, time) ==
    [tradingSignals |-> Append(ss, [id |-> nextId,
                                    confidence |-> insertSignal.confidence,
                                    isActive |-> TRUE, whatsappSent |-> FALSE,
                                    createdAt |-> time]),
     currentSignalId |-> nextId + 1]

\* Variant: the flag is written on every signal
updateSignalWhatsappSentAll(ss, id) ==
    [i \in 1..Len(ss) |-> [ss[i] EXCEPT !.whatsappSent = TRUE]]

\* Variant: a sent signal is retired
updateSignalWhatsappSentRetire(ss, id) ==
    [i \in 1..Len(ss) |->
        IF ss[i].id = id THEN [ss[i] EXCEPT !.whatsappSent = TRUE, !.isActive = FALSE]
        ELSE ss[i]]

\* Variant: the flag is not written
updateSignalWhatsappSentNoop(ss, id) == ss

\* updateSignalWhatsappSent: tradingSignals.get(id).whatsappSent = true
updateSignalWhatsappSent(ss, id) ==
    [i \in 1..Len(ss) |->
        IF ss[i].id = id THEN [ss[i] EXCEPT !.whatsappSent = TRUE] ELSE ss[i]]

getAllPortfolioPositions(ps) == SelectSeq(ps, LAMBDA p : p.isActive)

\* createPortfolioPosition: id = currentPositionId++, isActive: true
createPortfolioPosition(ps, nextId, insertPosition) ==
    [portfolioPositions |-> Append(ps, [id |-> nextId,
                                        symbol |-> insertPosition.symbol,
                                        pnl |-> insertPosition.pnl,
                                        isActive |-> TRUE]),
     currentPositionId |-> nextId + 1]

\* Object.assign(target, source): every property of source is written to
\* target, the other properties of target stay
ObjectAssign(target, source) ==
    [f \in DOMAIN target \cup DOMAIN source |->
        IF f \in DOMAIN source THEN source[f] ELSE target[f]]

\* updatePortfolioPosition: portfolioPositions.get(id) is the record stored
\* under the key id, which is the id-th record created (the keys are the
\* values of the allocator and no entry is deleted), whatever its id
\* property holds by now; Object.assign(position, updates).  No record
\* under the key: nothing changes.
updatePortfolioPosition(ps, id, updates) ==
    [i \in 1..Len(ps) |-> IF i = id THEN ObjectAssign(ps[i], updates) ELSE ps[i]]

----------------------------------------------------------------------------
(* ZerodhaService: the index quote *)

\* getMockData('/quote?i=NSE:NIFTY 50'): last_price and change in tenths of
\* a rupee, net_change in hundredths
MockQuote == [last_price |-> 198453, change |-> 1562, net_change |-> 79,
              volume |-> 1234567]

\* What the remote endpoint may answer when credentials are configured
LiveQuotes == {[last_price |-> 199001, change |-> 548, net_change |-> 28,
                volume |-> 2500000]}

----------------------------------------------------------------------------
(* AISignalsService: the arithmetic of one cycle.  A Math.random() result  *)
(* is modelled in hundredths, 0..99; prices in tenths of a rupee; rsi,     *)
(* volatility, strength and momentum in hundredths.                        *)

Max(a, b) == IF a >= b THEN a ELSE b
Min(a, b) == IF a <= b THEN a ELSE b

\* calculateTechnicalIndicators: sma20 = price * (0.98 + r * 0.04) and
\* sma50 = price * (0.96 + r * 0.08), both kept as 2500 times their value
calculateTechnicalIndicators(quote, d) ==
    LET price == IF quote.last_price # 0 THEN quote.last_price ELSE 198450
        volume == IF quote.volume # 0 THEN quote.volume ELSE 1000000
    IN [rsi |-> 4500 + 20 * d.rsi,
        sma20 |-> price * (2450 + d.sma20),
        sma50 |-> price * (2400 + 2 * d.sma50),
        volume |-> volume,
        volatility |-> 1500 + 10 * d.volatility]

\* Variant: the sideways branch draws strength and momentum as the others do
analyzeMarketConditionsEven(indicators, d) ==
    [trend |-> IF indicators.rsi > 5500 /\ indicators.sma20 > indicators.sma50
               THEN "bullish"
               ELSE IF indicators.rsi < 4500 /\ indicators.sma20 < indicators.sma50
               THEN "bearish" ELSE "sideways",
     strength |-> 6000 + 30 * d.strength,
     momentum |-> 5500 + 25 * d.momentum]

analyzeMarketConditions(indicators, d) ==
    IF indicators.rsi > 5500 /\ indicators.sma20 > indicators.sma50
    THEN [trend |-> "bullish", strength |-> 6000 + 30 * d.strength,
          momentum |-> 5500 + 25 * d.momentum]
    ELSE IF indicators.rsi < 4500 /\ indicators.sma20 < indicators.sma50
    THEN [trend |-> "bearish", strength |-> 6000 + 30 * d.strength,
          momentum |-> 5500 + 25 * d.momentum]
    ELSE [trend |-> "sideways", strength |-> 4000 + 20 * d.strength,
          momentum |-> 4000 + 20 * d.momentum]

\* Variant: no clamp
ConfidenceUnclamped(raw) == raw

\* Math.max(60, Math.min(98, confidence))
ClampConfidence(raw) == Max(60, Min(98, raw))

\* generateTradingSignals, lines 261-271; j is Math.floor(Math.random() * 20)
Confidence(conditions, indicators, j) ==
    LET c0 == 60
        c1 == IF conditions.strength > 7000 THEN c0 + 15 ELSE c0
        c2 == IF conditions.momentum > 7000 THEN c1 + 10 ELSE c1
        c3 == IF indicators.volume > 2000000 THEN c2 + 5 ELSE c2
        c4 == IF indicators.volatility < 2000 THEN c3 + 10 ELSE c3
    IN ClampConfidence(c4 + j - 10)

\* The Math.random() results one run of the store model draws from
SampleDraws ==
    {[rsi |-> 0, sma20 |-> 0, sma50 |-> 99, volatility |-> 99,
      strength |-> 0, momentum |-> 0],
     [rsi |-> 99, sma20 |-> 99, sma50 |-> 0, volatility |-> 0,
      strength |-> 99, momentum |-> 99]}

SampleJitter == {4, 5}

\* Variant: Math.floor(Math.random() * 5) signals
NumSignalsSetWide == 0..4

\* generateTradingSignals: 1 + Math.floor(Math.random() * 3) signals
NumSignalsSet == 1..3

\* The signal lists generateTradingSignals can return for a quote
GeneratedSignals(quote, limit) ==
    UNION {
        LET ind == calculateTechnicalIndicators(quote, d)
            cond == analyzeMarketConditions(ind, d)
        IN UNION {[1..n -> {[confidence |-> Confidence(cond, ind, j)] : j \in SampleJitter}]
                    : n \in {k \in NumSignalsSet : k <= limit}}
        : d \in SampleDraws}

----------------------------------------------------------------------------
(* Initial state: the module-level singletons after construction *)

NoResp == [op |-> "none", status |-> 0, arg |-> "", user |-> NoSession, body |-> <<>>]

NoCalc == [fn |-> "none"]

\* created is history: the createTradingSignal calls of the cycle so far;
\* uncapped tells that the length of the cycle's list is not held below the
\* bound on stored signals
NoCycle == [pc |-> "done", quote |-> MockQuote, pending |-> <<>>, saved |-> 0,
            recipients |-> <<>>, idx |-> 0, error |-> FALSE, created |-> 0,
            uncapped |-> FALSE]

Seeded == createUser(<<>>, 1, [username |-> "admin", password |-> "admin"])

Init ==
    /\ zerodhaLive \in BOOLEAN
    /\ whatsappLive \in BOOLEAN
    /\ users = Seeded.users
    /\ currentUserId = Seeded.currentUserId
    /\ whatsappUsers = <<>>
    /\ tradingSignals = <<>>
    /\ portfolioPositions = <<>>
    /\ currentWhatsappUserId = 1
    /\ currentSignalId = 1
    /\ currentPositionId = 1
    /\ reqSession = NoSession
    /\ loggedIn = FALSE
    /\ resp = NoResp
    /\ welcomed = <<>>
    /\ posts = {}
    /\ cycles = <<>>
    /\ running = 0
    /\ attempts = EmptyBag
    /\ now = 0
    /\ calc = NoCalc

----------------------------------------------------------------------------
(* HTTP handlers.  A request is taken up only when the event loop is idle. *)

\* What the middleware chain of server/index.ts (express.json,
\* express.static) puts in req.session of an incoming request, given the
\* session the previous response left: there is no session middleware.
IncomingSession(previous) == NoSession

Reply(op, status, arg, user, body) ==
    [op |-> op, status |-> status, arg |-> arg, user |-> user, body |-> body]

CredentialSet == {"admin", "guest", Undefined}

\* POST /api/auth/login
Login(username, password) ==
    /\ running = 0
    /\ LET user == getUserByUsername(users, username)
       IN IF user = NoUser \/ user.password # password
          THEN /\ resp' = Reply("login", 401, <<username, password>>, NoSession, <<>>)
               /\ reqSession' = IncomingSession(reqSession)
               /\ UNCHANGED loggedIn
          ELSE /\ reqSession' = [userId |-> user.id, username |-> user.username]
               /\ resp' = Reply("login", 200, <<username, password>>,
                                [userId |-> user.id, username |-> user.username], <<>>)
               /\ loggedIn' = TRUE
    /\ UNCHANGED <<storeVars, configVars, genVars, welcomed, posts, calc>>

\* POST /api/auth/logout
Logout ==
    /\ running = 0
    /\ reqSession' = NoSession
    /\ loggedIn' = FALSE
    /\ resp' = Reply("logout", 200, "", NoSession, <<>>)
    /\ UNCHANGED <<storeVars, configVars, genVars, welcomed, posts, calc>>

\* GET /api/auth/me
AuthMe ==
    /\ running = 0
    /\ LET session == IncomingSession(reqSession)
       IN /\ reqSession' = session
          /\ IF session.userId # 0
             THEN resp' = Reply("me", 200, "", session, <<>>)
             ELSE resp' = Reply("me", 401, "", NoSession, <<>>)
    /\ UNCHANGED <<storeVars, configVars, genVars, welcomed, posts, loggedIn, calc>>

\* GET /api/whatsapp/users
GetWhatsappUsers ==
    /\ running = 0
    /\ resp' = Reply("listUsers", 200, "", NoSession, getAllWhatsappUsers(whatsappUsers))
    /\ reqSession' = IncomingSession(reqSession)
    /\ UNCHANGED <<storeVars, configVars, genVars, welcomed, posts, loggedIn, calc>>

\* POST /api/whatsapp/users; a body whose phoneNumber is not a string fails
\* insertWhatsappUserSchema.safeParse
\* Variant: the identifier is compared with the number
AlreadyRegisteredById(existingUsers, phoneNumber) ==
    \E i \in 1..Len(existingUsers) : existingUsers[i].id = Len(Chars(phoneNumber))

\* existingUsers.some(user => user.phoneNumber === phoneNumber)
AlreadyRegistered(existingUsers, phoneNumber) ==
    \E i \in 1..Len(existingUsers) : existingUsers[i].phoneNumber = phoneNumber

\* The handler up to its first await of real I/O.  A refused request is
\* answered at once.  An accepted one stores its record and calls
\* sendWelcomeMessage: without messaging credentials makeRequest returns
\* without a fetch and res.json(user) follows in the same turn; with them
\* the handler awaits the fetch and has not answered yet.
PostWhatsappUser(phoneNumber) ==
    /\ running = 0
    /\ reqSession' = IncomingSession(reqSession)
    /\ IF phoneNumber = Undefined
       THEN /\ resp' = Reply("addUser", 400, phoneNumber, NoSession,
                             <<"Invalid phone number format">>)
            /\ UNCHANGED <<whatsappUsers, currentWhatsappUserId, welcomed, posts>>
       ELSE IF ~Truthy(validatePhoneNumber(phoneNumber))
       THEN /\ resp' = Reply("addUser", 400, phoneNumber, NoSession,
                             <<"Invalid phone number format">>)
            /\ UNCHANGED <<whatsappUsers, currentWhatsappUserId, welcomed, posts>>
       ELSE IF AlreadyRegistered(getAllWhatsappUsers(whatsappUsers), phoneNumber)
       THEN /\ resp' = Reply("addUser", 400, phoneNumber, NoSession,
                             <<"Phone number already registered">>)
            /\ UNCHANGED <<whatsappUsers, currentWhatsappUserId, welcomed, posts>>
       ELSE LET added == addWhatsappUser(whatsappUsers, currentWhatsappUserId, phoneNumber)
            IN /\ currentWhatsappUserId <= MaxSubscribers
               /\ whatsappUsers' = added.whatsappUsers
               /\ currentWhatsappUserId' = added.currentWhatsappUserId
               /\ welcomed' = Append(welcomed, StripNonDigits(Chars(phoneNumber)))
               /\ IF whatsappLive
                  THEN /\ posts' = posts \cup {currentWhatsappUserId}
                       /\ resp' = NoResp
                  ELSE /\ posts' = posts
                       /\ resp' = Reply("addUser", 200, phoneNumber, NoSession,
                                        <<added.whatsappUsers[Len(added.whatsappUsers)]>>)
    /\ UNCHANGED <<users, tradingSignals, portfolioPositions, currentUserId,
                   currentSignalId, currentPositionId, configVars, genVars,
                   loggedIn, calc>>

\* DELETE /api/whatsapp/users/:phoneNumber
DeleteWhatsappUser(param) ==
    /\ running = 0
    /\ reqSession' = IncomingSession(reqSession)
    /\ LET text == decodeURIComponent(param)
       IN IF text = <<"URIError">>
          THEN /\ resp' = Reply("removeUser", 500, param, NoSession, <<>>)
               /\ UNCHANGED whatsappUsers
          ELSE LET removed == removeWhatsappUser(whatsappUsers, text)
               IN /\ whatsappUsers' = removed.whatsappUsers
                  /\ resp' = Reply("removeUser", IF removed.found THEN 200 ELSE 404,
                                   param, NoSession, <<>>)
    /\ UNCHANGED <<users, tradingSignals, portfolioPositions, currentUserId,
                   currentWhatsappUserId, currentSignalId, currentPositionId,
                   configVars, genVars, welcomed, posts, loggedIn, calc>>

\* GET /api/signals
GetSignals ==
    /\ running = 0
    /\ resp' = Reply("listSignals", 200, "", NoSession, getAllActiveSignals(tradingSignals))
    /\ reqSession' = IncomingSession(reqSession)
    /\ UNCHANGED <<storeVars, configVars, genVars, welcomed, posts, loggedIn, calc>>

\* GET /api/portfolio/positions
GetPortfolioPositions ==
    /\ running = 0
    /\ resp' = Reply("listPositions", 200, "", NoSession,
                     getAllPortfolioPositions(portfolioPositions))
    /\ reqSession' = IncomingSession(reqSession)
    /\ UNCHANGED <<storeVars, configVars, genVars, welcomed, posts, loggedIn, calc>>

----------------------------------------------------------------------------
(* The signal generator.  setInterval and the initial setTimeout both call *)
(* generateSignals(); each call is a cycle with its own locals.            *)

httpVars == <<reqSession, loggedIn, resp, welcomed, posts>>

\* A step that is no request sends no response
Quiet ==
    /\ resp' = NoResp
    /\ UNCHANGED <<reqSession, loggedIn, welcomed, posts>>

RECURSIVE SumSeq(_)
SumSeq(s) == IF s = <<>> THEN 0 ELSE Head(s) + SumSeq(Tail(s))

\* Signals a cycle will still create (one at least while it has not
\* generated its list yet)
Reserved(cy) ==
    IF cy.pc \in {"awaitQuote", "awaitOptions"} THEN 1 ELSE Len(cy.pending)

Capacity ==
    MaxSignals - Len(tradingSignals)
               - SumSeq([i \in 1..Len(cycles) |-> Reserved(cycles[i])])

\* The longest list generateTradingSignals returns
MaxCount == CHOOSE n \in NumSignalsSet : \A m \in NumSignalsSet : m <= n

ActiveIds == {whatsappUsers[i].id : i \in {k \in 1..Len(whatsappUsers) : whatsappUsers[k].isActive}}

\* Variant: a tick is skipped while an earlier cycle is not through
TimerStartsCycleWhenIdle(cs) == \A c \in 1..Len(cs) : cs[c].pc = "done"

\* The timer callbacks call generateSignals() whatever the earlier calls
\* are doing (isRunning only keeps the timers from being set twice)
TimerStartsCycle(cs) == TRUE

\* A timer fires: generateSignals() runs up to its first fetch.  Without
\* market-data credentials getNiftyQuote and getOptionsChain return mock
\* data at once and the signal list is generated in the same turn.
StartCycle(limit, uncapped) ==
    /\ IF zerodhaLive
       THEN /\ cycles' = Append(cycles, [NoCycle EXCEPT !.pc = "awaitQuote",
                                                        !.uncapped = uncapped])
            /\ UNCHANGED running
       ELSE \E signals \in GeneratedSignals(MockQuote, limit) :
            /\ cycles' = Append(cycles, [NoCycle EXCEPT !.pc = "loop",
                                                        !.pending = signals,
                                                        !.uncapped = uncapped])
            /\ running' = Len(cycles) + 1
    /\ Quiet
    /\ UNCHANGED <<storeVars, configVars, attempts, now, calc>>

\* A tick while the bound on stored signals leaves room; the list of the
\* cycle is no longer than the room
Tick ==
    /\ running = 0
    /\ TimerStartsCycle(cycles)
    /\ Len(cycles) < MaxCycles
    /\ Capacity >= 1
    /\ StartCycle(Capacity, FALSE)

\* The first tick of a run, with a list of any length generateTradingSignals
\* returns
TickUncapped ==
    /\ running = 0
    /\ TimerStartsCycle(cycles)
    /\ cycles = <<>>
    /\ StartCycle(MaxCount, TRUE)

\* Variant: the catch block starts the cycle again
CatchBlockRetry(cy) == [cy EXCEPT !.pc = "awaitQuote", !.error = TRUE]

\* The catch block of generateSignals: the error is logged and the call
\* returns
CatchBlock(cy) == [cy EXCEPT !.pc = "done", !.error = TRUE]

\* The quote fetch settles: a quote, a failure (mock data instead), or a
\* body without a data field, on which Object.values(undefined) throws and
\* the cycle ends in its catch block.  The options fetch starts next.
QuoteReturns(c) ==
    /\ running = 0
    /\ c \in 1..Len(cycles)
    /\ cycles[c].pc = "awaitQuote"
    /\ \/ \E q \in LiveQuotes :
            cycles' = [cycles EXCEPT ![c].pc = "awaitOptions", ![c].quote = q]
       \/ cycles' = [cycles EXCEPT ![c].pc = "awaitOptions", ![c].quote = MockQuote]
       \/ cycles' = [cycles EXCEPT ![c] = CatchBlock(@)]
    /\ Quiet
    /\ UNCHANGED <<storeVars, configVars, running, attempts, now, calc>>

\* The options fetch settles (its result is not used further); the
\* indicators, the conditions and the signal list are computed (the quote
\* is not read after that and its slot is reset).
OptionsReturns(c) ==
    /\ running = 0
    /\ c \in 1..Len(cycles)
    /\ cycles[c].pc = "awaitOptions"
    /\ \E signals \in GeneratedSignals(cycles[c].quote,
                                      IF cycles[c].uncapped THEN MaxCount
                                      ELSE Capacity + 1) :
         cycles' = [cycles EXCEPT ![c].pc = "loop", ![c].pending = signals,
                                  ![c].quote = MockQuote]
    /\ running' = c
    /\ Quiet
    /\ UNCHANGED <<storeVars, configVars, attempts, now, calc>>

\* One iteration of the save loop up to the first send:
\* createTradingSignal, and for confidence >= 90 the start of
\* sendWhatsAppNotifications (getAllWhatsappUsers)
CycleSave(c) ==
    /\ running = c
    /\ c \in 1..Len(cycles)
    /\ cycles[c].pc = "loop"
    /\ cycles[c].pending # <<>>
    /\ \E t \in {now, Min(now + 1, MaxTime)} :
        LET signal == Head(cycles[c].pending)
            created == createTradingSignal(tradingSignals, currentSignalId, signal, t)
            id == currentSignalId
        IN /\ now' = t
           /\ tradingSignals' = created.tradingSignals
           /\ currentSignalId' = created.currentSignalId
           /\ IF signal.confidence >= 90
              THEN cycles' = [cycles EXCEPT
                                ![c].pending = Tail(@),
                                ![c].created = @ + 1,
                                ![c].saved = id,
                                ![c].recipients = getAllWhatsappUsers(whatsappUsers),
                                ![c].idx = 1,
                                ![c].pc = "fanout"]
              ELSE cycles' = [cycles EXCEPT ![c].pending = Tail(@),
                                            ![c].created = @ + 1]
    /\ Quiet
    /\ UNCHANGED <<users, whatsappUsers, portfolioPositions, currentUserId,
                   currentWhatsappUserId, currentPositionId, configVars,
                   running, attempts, calc>>

\* sendTradingSignal for the next recipient.  With credentials the call
\* awaits a fetch and the event loop is released; without, makeRequest
\* returns { success: true, mockMode: true } at once.
CycleSend(c) ==
    /\ running = c
    /\ c \in 1..Len(cycles)
    /\ cycles[c].pc = "fanout"
    /\ cycles[c].idx <= Len(cycles[c].recipients)
    /\ attempts' = attempts (+) SetToBag({[signal |-> cycles[c].saved,
                                           user |-> cycles[c].recipients[cycles[c].idx].id,
                                           active |-> cycles[c].recipients[cycles[c].idx].id
                                                        \in ActiveIds]})
    /\ IF whatsappLive
       THEN /\ cycles' = [cycles EXCEPT ![c].pc = "awaitSend"]
            /\ running' = 0
       ELSE /\ cycles' = [cycles EXCEPT ![c].idx = @ + 1]
            /\ UNCHANGED running
    /\ Quiet
    /\ UNCHANGED <<storeVars, configVars, now, calc>>

SendOutcomes == {"ok", "notOk", "networkError"}

\* The fetch of a send settles; every outcome is turned into a result with
\* success: true and the loop goes on.
SendReturns(c) ==
    /\ running = 0
    /\ c \in 1..Len(cycles)
    /\ cycles[c].pc = "awaitSend"
    /\ \E outcome \in SendOutcomes :
         cycles' = [cycles EXCEPT ![c].pc = "fanout", ![c].idx = @ + 1]
    /\ running' = c
    /\ Quiet
    /\ UNCHANGED <<storeVars, configVars, attempts, now, calc>>

\* After the last recipient: storage.updateSignalWhatsappSent(signal.id);
\* sendWhatsAppNotifications returns and its locals are gone
CycleMark(c) ==
    /\ running = c
    /\ c \in 1..Len(cycles)
    /\ cycles[c].pc = "fanout"
    /\ cycles[c].idx > Len(cycles[c].recipients)
    /\ tradingSignals' = updateSignalWhatsappSent(tradingSignals, cycles[c].saved)
    /\ cycles' = [cycles EXCEPT ![c].pc = "loop", ![c].saved = 0,
                                 ![c].recipients = <<>>, ![c].idx = 0]
    /\ Quiet
    /\ UNCHANGED <<users, whatsappUsers, portfolioPositions, currentUserId,
                   currentWhatsappUserId, currentSignalId, currentPositionId,
                   configVars, running, attempts, now, calc>>

\* The save loop is through: the cycle logs its count and returns.
CycleEnd(c) ==
    /\ running = c
    /\ c \in 1..Len(cycles)
    /\ cycles[c].pc = "loop"
    /\ cycles[c].pending = <<>>
    /\ cycles' = [cycles EXCEPT ![c].pc = "done"]
    /\ running' = 0
    /\ Quiet
    /\ UNCHANGED <<storeVars, configVars, attempts, now, calc>>

CycleStep(c) ==
    \/ QuoteReturns(c)
    \/ OptionsReturns(c)
    \/ CycleSave(c)
    \/ CycleSend(c)
    \/ SendReturns(c)
    \/ CycleMark(c)
    \/ CycleEnd(c)

----------------------------------------------------------------------------
(* Store methods that no route and no service calls.  Their bodies hold no *)
(* await, so a call is one step whoever makes it.                          *)

StoreCreateUser(insertUser) ==
    /\ running = 0
    /\ currentUserId <= MaxUsers
    /\ LET created == createUser(users, currentUserId, insertUser)
       IN /\ users' = created.users
          /\ currentUserId' = created.currentUserId
    /\ Quiet
    /\ UNCHANGED <<whatsappUsers, tradingSignals, portfolioPositions,
                   currentWhatsappUserId, currentSignalId, currentPositionId,
                   configVars, genVars, calc>>

StoreCreatePortfolioPosition(insertPosition) ==
    /\ running = 0
    /\ currentPositionId <= MaxPositions
    /\ LET created == createPortfolioPosition(portfolioPositions, currentPositionId,
                                              insertPosition)
       IN /\ portfolioPositions' = created.portfolioPositions
          /\ currentPositionId' = created.currentPositionId
    /\ Quiet
    /\ UNCHANGED <<users, whatsappUsers, tradingSignals, currentUserId,
                   currentWhatsappUserId, currentSignalId, configVars, genVars, calc>>

\* The updates of the direct calls: a closed position, a new P&L, a new id
\* property and an update without properties
PositionUpdates == {[isActive |-> FALSE], [pnl |-> 50000], [id |-> 7], <<>>}

StoreUpdatePortfolioPosition(id, updates) ==
    /\ running = 0
    /\ portfolioPositions' = updatePortfolioPosition(portfolioPositions, id, updates)
    /\ Quiet
    /\ UNCHANGED <<users, whatsappUsers, tradingSignals, currentUserId,
                   currentWhatsappUserId, currentSignalId, currentPositionId,
                   configVars, genVars, calc>>

----------------------------------------------------------------------------
(* ZerodhaService: requests.  An endpoint is its path prefix and the       *)
(* instruments of its query; a response is named by the set of its keys:   *)
(* <<"token", 256265>> for the index, <<"CE", strike>> and <<"PE", strike>> *)
(* for the two options of a strike.                                        *)

MockStrikes == <<19750, 19800, 19850, 19900, 19950>>

SeqToSet(s) == {s[i] : i \in 1..Len(s)}

\* endpoint.includes(word): neither word occurs in an instrument name
EndpointIncludes(endpoint, word) ==
    CASE word = "quote" -> endpoint.path = "/quote?i="
      [] word = "instruments" -> endpoint.path = "/instruments/historical/"

\* generateMockOptionsChain: `${strike}CE` and `${strike}PE` for the five
\* fixed strikes
generateMockOptionsChain ==
    [kind |-> "mockChain",
     keys |-> {<<"CE", k>> : k \in SeqToSet(MockStrikes)}
                \cup {<<"PE", k>> : k \in SeqToSet(MockStrikes)},
     last_price |-> 0]

\* Variant: no synthetic data for any endpoint
getMockDataEmpty(endpoint) == [kind |-> "empty", keys |-> {}, last_price |-> 0]

getMockData(endpoint) ==
    IF EndpointIncludes(endpoint, "quote")
    THEN [kind |-> "mockQuote", keys |-> {<<"token", 256265>>},
          last_price |-> MockQuote.last_price]
    ELSE IF EndpointIncludes(endpoint, "instruments")
    THEN generateMockOptionsChain
    ELSE [kind |-> "empty", keys |-> {}, last_price |-> 0]

\* What the remote endpoint answers to a request it accepts: an entry for
\* each instrument asked for
RemoteData(endpoint) ==
    [kind |-> "live", keys |-> SeqToSet(endpoint.instruments),
     last_price |-> IF endpoint.instruments = <<<<"token", 256265>>>>
                    THEN 199001 ELSE 0]

\* data.data of an accepted request whose body has no data property: the
\* value undefined, which has no entries
NoData == [kind |-> "undefined", keys |-> {}, last_price |-> 0]

\* How the fetch of makeRequest settles: accepted with a data property in
\* the body, accepted without one, refused (response.ok false), or rejected
FetchOutcomes == {"ok", "okNoData", "notOk", "networkError"}

\* ZerodhaService.makeRequest: mock data without credentials; data.data of
\* an accepted request, whatever it is; mock data from the catch block
ZerodhaMakeRequest(live, endpoint, outcome) ==
    IF ~live THEN getMockData(endpoint)
    ELSE IF outcome = "ok" THEN RemoteData(endpoint)
    ELSE IF outcome = "okNoData" THEN NoData
    ELSE getMockData(endpoint)

\* getNiftyQuote: '/quote?i=NSE:NIFTY 50'
NiftyQuoteEndpoint == [path |-> "/quote?i=", instruments |-> <<<<"token", 256265>>>>]

\* strikes.flatMap(strike => [...CE, ...PE])
RECURSIVE FlatMapInstruments(_)
FlatMapInstruments(strikes) ==
    IF strikes = <<>> THEN <<>>
    ELSE <<<<"CE", Head(strikes)>>, <<"PE", Head(strikes)>>>>
            \o FlatMapInstruments(Tail(strikes))

\* getOptionsChain: `/quote?i=${instruments.join('&i=')}`
OptionsChainEndpoint(strikes) ==
    [path |-> "/quote?i=", instruments |-> FlatMapInstruments(strikes)]

getOptionsChain(live, strikes, outcome) ==
    ZerodhaMakeRequest(live, OptionsChainEndpoint(strikes), outcome)

getNiftyQuote(live, outcome) ==
    ZerodhaMakeRequest(live, NiftyQuoteEndpoint, outcome)

\* getHistoricalData: `/instruments/historical/${instrument}/${interval}?...`
getHistoricalData(live, instrument, outcome) ==
    ZerodhaMakeRequest(live, [path |-> "/instruments/historical/",
                              instruments |-> <<instrument>>], outcome)

\* Variant: Math.floor(currentPrice / 50) * 50
BaseStrikeFloor(price) == (price \div 500) * 50

\* generateSignals, lines 168-169: prices in tenths of a rupee
\* Math.round(currentPrice / 50) * 50
BaseStrike(price) == ((price + 250) \div 500) * 50

StrikeLadder(base) == <<base - 100, base - 50, base, base + 50, base + 100>>

\* generateSignals, line 165: last_price || 19845, in tenths of a rupee
CurrentPrice(lastPrice) == IF lastPrice # 0 THEN lastPrice ELSE 198450

\* generateTradingSignals, lines 253-259: strikes[Math.floor(strikes.length *
\* 0.6) + r] for a call and strikes[Math.floor(strikes.length * 0.4) - r]
\* for a put, r being Math.floor(Math.random() * 2); the products are
\* exactly 3 and 2 for a length of 5.  An index outside the array reads
\* undefined, for which 0 stands.
SelectStrike(strikes, isCall, r) ==
    LET index == IF isCall THEN (Len(strikes) * 6) \div 10 + r
                 ELSE (Len(strikes) * 4) \div 10 - r
    IN IF index + 1 \in 1..Len(strikes) THEN strikes[index + 1] ELSE 0

----------------------------------------------------------------------------
(* Market and portfolio routes.  A handler that awaits a fetch answers     *)
(* when the fetch has settled; it touches no state before or after.        *)

\* GET /api/market/nifty
GetMarketNifty ==
    /\ running = 0
    /\ \E outcome \in FetchOutcomes :
         resp' = Reply("nifty", 200, "", NoSession, getNiftyQuote(zerodhaLive, outcome))
    /\ reqSession' = IncomingSession(reqSession)
    /\ UNCHANGED <<storeVars, configVars, genVars, welcomed, posts, loggedIn, calc>>

\* GET /api/market/options-chain
GetMarketOptionsChain ==
    /\ running = 0
    /\ \E outcome \in FetchOutcomes :
         resp' = Reply("optionsChain", 200, "", NoSession,
                       getOptionsChain(zerodhaLive, MockStrikes, outcome))
    /\ reqSession' = IncomingSession(reqSession)
    /\ UNCHANGED <<storeVars, configVars, genVars, welcomed, posts, loggedIn, calc>>

\* positions.reduce((sum, pos) => sum + Number(pos.pnl), 0), in hundredths
RECURSIVE SumPnl(_)
SumPnl(positions) ==
    IF positions = <<>> THEN 0 ELSE Head(positions).pnl + SumPnl(Tail(positions))

\* Variant: the count starts at one
portfolioSummaryOffByOne(positions) ==
    [totalPnl |-> SumPnl(positions),
     activePositions |-> Len(positions) + 1,
     positions |-> SubSeq(positions, 1, Min(5, Len(positions)))]

\* The body of GET /api/portfolio/summary: totalPnl.toFixed(2) in
\* hundredths, positions.length and positions.slice(0, 5)
portfolioSummary(positions) ==
    [totalPnl |-> SumPnl(positions),
     activePositions |-> Len(positions),
     positions |-> SubSeq(positions, 1, Min(5, Len(positions)))]

\* GET /api/portfolio/summary
GetPortfolioSummary ==
    /\ running = 0
    /\ resp' = Reply("summary", 200, "", NoSession,
                     portfolioSummary(getAllPortfolioPositions(portfolioPositions)))
    /\ reqSession' = IncomingSession(reqSession)
    /\ UNCHANGED <<storeVars, configVars, genVars, welcomed, posts, loggedIn, calc>>

\* x || d for a number x
OrDefault(x, d) == IF x # 0 THEN x ELSE d

\* undefined, read through ?. : every property is undefined
NoQuote == [last_price |-> 0, change |-> 0, net_change |-> 0, volume |-> 0]

\* What Object.values(niftyData)[0] can be for a result of getNiftyQuote:
\* the entry of the index, undefined for an object without entries
FirstValues(niftyData) ==
    CASE niftyData.kind = "mockQuote" -> {MockQuote}
      [] niftyData.kind = "live" -> LiveQuotes
      [] niftyData.kind \in {"empty", "undefined"} -> {NoQuote}

\* The catch block of getMarketOverview: fixed figures (price and change in
\* tenths, changePercent and totalPnl in hundredths, successRate in tenths)
MarketOverviewFallback ==
    [nifty50 |-> [price |-> 198453, change |-> 1562, changePercent |-> 79],
     activeSignals |-> 12,
     successRate |-> 745,
     whatsappUsers |-> 8,
     portfolio |-> [totalPnl |-> 1245600, activePositions |-> 3]]

\* AISignalsService.getMarketOverview, given what its four reads return and
\* the first value of niftyData; Object.values(undefined) throws into the
\* catch block
getMarketOverview(niftyData, niftyQuote, activeSignals, activePositions, activeUsers) ==
    IF niftyData.kind = "undefined" THEN MarketOverviewFallback
    ELSE [nifty50 |-> [price |-> OrDefault(niftyQuote.last_price, 198453),
                       change |-> OrDefault(niftyQuote.change, 1562),
                       changePercent |-> OrDefault(niftyQuote.net_change, 79)],
          activeSignals |-> Len(activeSignals),
          successRate |-> 745,
          whatsappUsers |-> Len(activeUsers),
          portfolio |-> [totalPnl |-> SumPnl(activePositions),
                         activePositions |-> Len(activePositions)]]

\* GET /api/market/overview.  The handler reads the store after its quote
\* fetch has settled and answers in the same turn; getMarketOverview
\* catches what it throws, so the answer is 200.
GetMarketOverview ==
    /\ running = 0
    /\ \E outcome \in FetchOutcomes :
         LET niftyData == getNiftyQuote(zerodhaLive, outcome)
         IN \E niftyQuote \in FirstValues(niftyData) :
              resp' = Reply("overview", 200, "", NoSession,
                            getMarketOverview(niftyData, niftyQuote,
                                              getAllActiveSignals(tradingSignals),
                                              getAllPortfolioPositions(portfolioPositions),
                                              getAllWhatsappUsers(whatsappUsers)))
    /\ reqSession' = IncomingSession(reqSession)
    /\ UNCHANGED <<storeVars, configVars, genVars, welcomed, posts, loggedIn, calc>>

----------------------------------------------------------------------------
(* The entry program server/index.ts: its app has the two middlewares and  *)
(* one handler for every path, which passes the request on to the Python   *)
(* server on port 5001 and answers what that server answers.  The Python   *)
(* server is not part of the sources, so its answer is any of a few.       *)

\* How the fetch of the proxy handler settles: an answer with a JSON body,
\* an answer with a text body, or no answer (or a JSON body that does not
\* parse), which goes to the catch block
ProxyOutcomes ==
    {[kind |-> "json", status |-> 200], [kind |-> "json", status |-> 404],
     [kind |-> "text", status |-> 200], [kind |-> "text", status |-> 500],
     [kind |-> "failed", status |-> 0]}

\* app.use('/', ...): the status and the body of the Python server, or 503
ProxyRequest ==
    /\ running = 0
    /\ \E outcome \in ProxyOutcomes :
         resp' = IF outcome.kind = "failed"
                 THEN Reply("proxy", 503, "", NoSession,
                            <<"Service temporarily unavailable">>)
                 ELSE Reply("proxy", outcome.status, "", NoSession, <<outcome.kind>>)
    /\ reqSession' = IncomingSession(reqSession)
    /\ UNCHANGED <<storeVars, configVars, genVars, welcomed, posts, loggedIn, calc>>

----------------------------------------------------------------------------
(* WhatsAppService: messages.  A result is named by the set of its         *)
(* property names and the value of its success property.                   *)

\* What response.json() yields for an accepted request: the message
\* receipt of the remote service, or a body that does not parse
RemoteReceipts ==
    {[kind |-> "receipt", keys |-> {"messaging_product", "contacts", "messages"},
      success |-> Undefined],
     [kind |-> "unparsable", keys |-> {}, success |-> Undefined]}

\* Variant: no catch around the fetch
WhatsAppMakeRequestNoCatch(live, outcome, body) ==
    IF ~live
    THEN [kind |-> "mock", keys |-> {"success", "mockMode"}, success |-> "true"]
    ELSE IF outcome = "ok" /\ body.kind # "unparsable"
    THEN body
    ELSE [kind |-> "thrown", keys |-> {}, success |-> Undefined]

\* WhatsAppService.makeRequest; a rejection would be a result of kind
\* "thrown", which the catch block leaves no way to
WhatsAppMakeRequest(live, outcome, body) ==
    IF ~live
    THEN [kind |-> "mock", keys |-> {"success", "mockMode"}, success |-> "true"]
    ELSE IF outcome = "ok" /\ body.kind # "unparsable"
    THEN body
    ELSE [kind |-> "caught", keys |-> {"success", "error"}, success |-> "true"]

\* sendTradingSignal: the message goes to the digits of the phone number
sendTradingSignal(live, phoneNumber, outcome, body) ==
    LET result == WhatsAppMakeRequest(live, outcome, body)
    IN [to |-> StripNonDigits(Chars(phoneNumber)),
        threw |-> (result.kind = "thrown"), result |-> result]

\* sendWelcomeMessage: as sendTradingSignal, with the welcome text
sendWelcomeMessage(live, phoneNumber, outcome, body) ==
    LET result == WhatsAppMakeRequest(live, outcome, body)
    IN [to |-> StripNonDigits(Chars(phoneNumber)),
        threw |-> (result.kind = "thrown"), result |-> result]

\* The welcome fetch of a POST /api/whatsapp/users settles and the handler
\* goes on: res.json(user), user being the stored record as it is by now
\* (500 from the catch block had sendWelcomeMessage thrown)
PostReturns(id) ==
    /\ running = 0
    /\ id \in posts
    /\ posts' = posts \ {id}
    /\ reqSession' = IncomingSession(reqSession)
    /\ LET user == whatsappUsers[FirstIndex({k \in 1..Len(whatsappUsers) :
                                               whatsappUsers[k].id = id})]
       IN \E outcome \in SendOutcomes, body \in RemoteReceipts :
            LET call == sendWelcomeMessage(whatsappLive, user.phoneNumber, outcome, body)
            IN resp' = IF call.threw
                       THEN Reply("addUser", 500, user.phoneNumber, NoSession, <<>>)
                       ELSE Reply("addUser", 200, user.phoneNumber, NoSession, <<user>>)
    /\ UNCHANGED <<storeVars, configVars, genVars, welcomed, loggedIn, calc>>

----------------------------------------------------------------------------
(* Single calls of the service functions, recorded in calc *)

CalcQuotes ==
    {MockQuote} \cup LiveQuotes
        \cup {[last_price |-> 198000, change |-> 0, net_change |-> 0, volume |-> 2000000]}

CalcDraws ==
    [rsi : {0, 50, 51, 99}, sma20 : {0, 99}, sma50 : {0, 25, 26, 99},
     volatility : {0, 49, 50, 99}, strength : {0, 33, 34, 99},
     momentum : {0, 60, 61, 99}]

JitterDraws == 0..19

\* The confidence of one signal of generateTradingSignals
CalcConfidence ==
    /\ calc = NoCalc
    /\ \E quote \in CalcQuotes, d \in CalcDraws, j \in JitterDraws :
        LET ind == calculateTechnicalIndicators(quote, d)
            cond == analyzeMarketConditions(ind, d)
        IN calc' = [fn |-> "confidence", trend |-> cond.trend,
                    strength |-> cond.strength, momentum |-> cond.momentum,
                    volume |-> ind.volume, volatility |-> ind.volatility,
                    jitter |-> j - 10, confidence |-> Confidence(cond, ind, j)]
    /\ UNCHANGED <<storeVars, configVars, httpVars, genVars>>

CalcPrices == {198453, 199001, 197749, 197750, 198000}

\* The strike lists getOptionsChain is called with: the list of the
\* options-chain route and the ladder of a generator cycle
CalcStrikeLists == {MockStrikes} \cup {StrikeLadder(BaseStrike(p)) : p \in CalcPrices}

\* getOptionsChain(strikes), as GET /api/market/options-chain and
\* generateSignals call it
CalcOptionsChain ==
    /\ calc = NoCalc
    /\ \E strikes \in CalcStrikeLists, outcome \in FetchOutcomes :
        calc' = [fn |-> "getOptionsChain", strikes |-> strikes,
                 live |-> zerodhaLive, outcome |-> outcome,
                 result |-> getOptionsChain(zerodhaLive, strikes, outcome)]
    /\ UNCHANGED <<storeVars, configVars, httpVars, genVars>>

\* getNiftyQuote(), as GET /api/market/nifty calls it
CalcNiftyQuote ==
    /\ calc = NoCalc
    /\ \E outcome \in FetchOutcomes :
        calc' = [fn |-> "getNiftyQuote", live |-> zerodhaLive, outcome |-> outcome,
                 result |-> getNiftyQuote(zerodhaLive, outcome)]
    /\ UNCHANGED <<storeVars, configVars, httpVars, genVars>>

\* getHistoricalData(instrument, from, to)
CalcHistoricalData ==
    /\ calc = NoCalc
    /\ \E outcome \in FetchOutcomes :
        calc' = [fn |-> "getHistoricalData", live |-> zerodhaLive, outcome |-> outcome,
                 result |-> getHistoricalData(zerodhaLive, <<"token", 256265>>, outcome)]
    /\ UNCHANGED <<storeVars, configVars, httpVars, genVars>>

\* sendTradingSignal(phoneNumber, signal)
CalcSendTradingSignal ==
    /\ calc = NoCalc
    /\ \E p \in GenPhones, outcome \in SendOutcomes, body \in RemoteReceipts :
        calc' = [fn |-> "sendTradingSignal", live |-> whatsappLive,
                 outcome |-> outcome, body |-> body.kind,
                 call |-> sendTradingSignal(whatsappLive, p, outcome, body)]
    /\ UNCHANGED <<storeVars, configVars, httpVars, genVars>>

\* getNextThursday: today is what new Date() reads, as the local weekday
\* (0 is Sunday) and the minute of the day; the result is the number of days
\* setDate moves ahead and the minute of the day setHours(15, 30, 0, 0) sets
getNextThursday(today) ==
    LET daysUntilThursday == (4 - today.day + 7) % 7
    IN [days |-> IF daysUntilThursday = 0 THEN 7 ELSE daysUntilThursday,
        minute |-> 15 * 60 + 30]

\* The moments a cycle can be generated at
ClockReadings == [day : 0..6, minute : 0..(24 * 60 - 1)]

\* getNextThursday(), as generateTradingSignals calls it
CalcNextThursday ==
    /\ calc = NoCalc
    /\ \E today \in ClockReadings :
        calc' = [fn |-> "getNextThursday", today |-> today,
                 result |-> getNextThursday(today)]
    /\ UNCHANGED <<storeVars, configVars, httpVars, genVars>>

\* The Math.random() results of the indicators: every rsi draw, the ends of
\* the two averages
TrendDraws ==
    [rsi : 0..99, sma20 : {0, 99}, sma50 : {0, 99}, volatility : {0},
     strength : {0}, momentum : {0}]

\* analyzeMarketConditions(calculateTechnicalIndicators(niftyData)), as
\* generateSignals calls them
CalcAnalyze ==
    /\ calc = NoCalc
    /\ \E quote \in CalcQuotes, d \in TrendDraws :
        LET ind == calculateTechnicalIndicators(quote, d)
        IN calc' = [fn |-> "analyzeMarketConditions", rsi |-> ind.rsi,
                    sma20 |-> ind.sma20, sma50 |-> ind.sma50,
                    trend |-> analyzeMarketConditions(ind, d).trend]
    /\ UNCHANGED <<storeVars, configVars, httpVars, genVars>>

\* The last_price values of a quote, in tenths of a rupee: every price from
\* 19750.0 to 19850.0 and a quote without a price
StrikePrices == {0} \cup ((19750 * 10)..(19850 * 10))

\* The strike of one signal: generateSignals derives the ladder from the
\* price and generateTradingSignals picks the strike
CalcStrike ==
    /\ calc = NoCalc
    /\ \E lastPrice \in StrikePrices, isCall \in BOOLEAN, r \in {0, 1} :
        LET currentPrice == CurrentPrice(lastPrice)
            baseStrike == BaseStrike(currentPrice)
            strikes == StrikeLadder(baseStrike)
        IN calc' = [fn |-> "strike", price |-> currentPrice,
                    baseStrike |-> baseStrike, strikes |-> strikes,
                    type |-> IF isCall THEN "CALL" ELSE "PUT",
                    strikePrice |-> SelectStrike(strikes, isCall, r)]
    /\ UNCHANGED <<storeVars, configVars, httpVars, genVars>>

\* The signal maps getAllActiveSignals is called on: up to four signals in
\* creation order, each created at the time of the one before or later
SignalStores ==
    {[i \in 1..n |-> [id |-> i, confidence |-> 60, isActive |-> TRUE,
                      whatsappSent |-> FALSE, createdAt |-> times[i]]] :
        n \in 0..4,
        times \in {t \in [1..4 -> 0..2] : \A i \in 1..3 : t[i] <= t[i + 1]}}

\* storage.getAllActiveSignals(), as GET /api/signals calls it
CalcActiveSignals ==
    /\ calc = NoCalc
    /\ \E ss \in SignalStores :
        calc' = [fn |-> "getAllActiveSignals", store |-> ss,
                 result |-> getAllActiveSignals(ss)]
    /\ UNCHANGED <<storeVars, configVars, httpVars, genVars>>

\* generateTradingSignals, lines 273-276 and 284-285.  A Math.random()
\* result r is in hundredths; basePrice is in hundredths of a rupee, the
\* two products in thousandths of that, and toFixed(2) rounds a product to
\* hundredths of a rupee (the number the stored decimal string denotes).
BasePrice(r) == 3000 + 40 * r

TargetPrice(basePrice, r) == basePrice * (1500 + 8 * r)

\* Variant: basePrice * (0.4 + Math.random() * 1.2)
StopLossWide(basePrice, r) == basePrice * (400 + 12 * r)

StopLoss(basePrice, r) == basePrice * (400 + 3 * r)

ToFixed2(x) == (x + 500) \div 1000

\* The Math.random() results of the three prices
PriceDraws ==
    [base : {0, 25, 50, 75, 99}, target : {0, 1, 25, 50, 75, 98, 99},
     stop : {0, 1, 25, 50, 75, 98, 99}]

\* The target and the stop of one signal of generateTradingSignals
CalcTargetStop ==
    /\ calc = NoCalc
    /\ \E d \in PriceDraws :
        LET basePrice == BasePrice(d.base)
            targetPrice == TargetPrice(basePrice, d.target)
            stopLoss == StopLoss(basePrice, d.stop)
        IN calc' = [fn |-> "targetStop", basePrice |-> basePrice,
                    target |-> targetPrice, stop |-> stopLoss,
                    targetPrice |-> ToFixed2(targetPrice),
                    stopLoss |-> ToFixed2(stopLoss)]
    /\ UNCHANGED <<storeVars, configVars, httpVars, genVars>>

\* sendWelcomeMessage(phoneNumber)
CalcSendWelcomeMessage ==
    /\ calc = NoCalc
    /\ \E p \in GenPhones, outcome \in SendOutcomes, body \in RemoteReceipts :
        calc' = [fn |-> "sendWelcomeMessage", live |-> whatsappLive,
                 outcome |-> outcome, body |-> body.kind,
                 call |-> sendWelcomeMessage(whatsappLive, p, outcome, body)]
    /\ UNCHANGED <<storeVars, configVars, httpVars, genVars>>

----------------------------------------------------------------------------
(* Specifications.  The request handlers and the generator share only the *)
(* store: Spec runs the request handlers alone (no timer has fired yet),   *)
(* GenSpec runs the generator with the handlers that touch what it reads   *)
(* and writes.                                                             *)

Next ==
    \/ \E u \in CredentialSet, pw \in CredentialSet : Login(u, pw)
    \/ Logout
    \/ AuthMe
    \/ GetWhatsappUsers
    \/ \E p \in PhoneSet \cup {Undefined} : PostWhatsappUser(p)
    \/ \E id \in 1..MaxSubscribers : PostReturns(id)
    \/ \E p \in ParamSet : DeleteWhatsappUser(p)
    \/ GetSignals
    \/ GetPortfolioPositions
    \/ GetPortfolioSummary
    \/ GetMarketOverview
    \/ GetMarketNifty
    \/ GetMarketOptionsChain
    \/ ProxyRequest

Spec == Init /\ [][Next]_vars

\* The generator and the subscriber requests up to the first await of each
\* handler
FairNext ==
    \/ \E p \in GenPhones : PostWhatsappUser(p)
    \/ \E p \in GenPhones : DeleteWhatsappUser(p)
    \/ Tick
    \/ \E c \in 1..MaxCycles : QuoteReturns(c)
    \/ \E c \in 1..MaxCycles : OptionsReturns(c)
    \/ \E c \in 1..MaxCycles : CycleSave(c)
    \/ \E c \in 1..MaxCycles : CycleSend(c)
    \/ \E c \in 1..MaxCycles : SendReturns(c)
    \/ \E c \in 1..MaxCycles : CycleMark(c)
    \/ \E c \in 1..MaxCycles : CycleEnd(c)

\* The generator and the subscriber requests
GenNext ==
    \/ FairNext
    \/ \E id \in 1..MaxSubscribers : PostReturns(id)

GenSpec == Init /\ [][GenNext]_vars

\* One cycle of any length, and the subscriber requests beside it.  The
\* welcome fetches of the POST handlers are still under way: a handler that
\* goes on after its fetch writes resp and posts only, and no step of the
\* generator reads either.
UncappedNext ==
    \/ \E p \in GenPhones : PostWhatsappUser(p)
    \/ \E p \in GenPhones : DeleteWhatsappUser(p)
    \/ TickUncapped
    \/ \E c \in 1..MaxCycles : QuoteReturns(c)
    \/ \E c \in 1..MaxCycles : OptionsReturns(c)
    \/ \E c \in 1..MaxCycles : CycleSave(c)
    \/ \E c \in 1..MaxCycles : CycleSend(c)
    \/ \E c \in 1..MaxCycles : SendReturns(c)
    \/ \E c \in 1..MaxCycles : CycleMark(c)
    \/ \E c \in 1..MaxCycles : CycleEnd(c)

UncappedSpec == Init /\ [][UncappedNext]_vars

\* The overview, signal and portfolio routes beside the generator and the
\* subscriber requests (the session routes, the quote routes and the
\* subscriber list read nothing of the generator and leave storeVars as they
\* are; the welcome fetches are still under way)
DataNext ==
    \/ FairNext
    \/ GetMarketOverview
    \/ GetSignals
    \/ GetPortfolioPositions
    \/ GetPortfolioSummary

DataSpec == Init /\ [][DataNext]_vars

\* The generator and the requests for one subscriber number beside it, with
\* calls of the store methods that have no caller in the repository (the
\* welcome fetches are still under way)
StoreNext ==
    \/ PostWhatsappUser("+919876543210")
    \/ DeleteWhatsappUser("+919876543210")
    \/ Tick
    \/ \E c \in 1..MaxCycles : QuoteReturns(c)
    \/ \E c \in 1..MaxCycles : OptionsReturns(c)
    \/ \E c \in 1..MaxCycles : CycleSave(c)
    \/ \E c \in 1..MaxCycles : CycleSend(c)
    \/ \E c \in 1..MaxCycles : SendReturns(c)
    \/ \E c \in 1..MaxCycles : CycleMark(c)
    \/ \E c \in 1..MaxCycles : CycleEnd(c)
    \/ StoreCreateUser([username |-> "guest", password |-> "guest"])
    \/ StoreCreatePortfolioPosition([symbol |-> "NIFTY", pnl |-> 125000])
    \/ \E id \in 1..MaxPositions, updates \in PositionUpdates :
          StoreUpdatePortfolioPosition(id, updates)

StoreSpec == Init /\ [][StoreNext]_vars

\* A started continuation of a cycle runs and a started fetch of a cycle
\* settles.
FairSpec == Init /\ [][FairNext]_vars /\ \A c \in 1..MaxCycles : WF_vars(CycleStep(c))

CalcNext ==
    \/ CalcConfidence
    \/ CalcOptionsChain
    \/ CalcNiftyQuote
    \/ CalcHistoricalData
    \/ CalcSendTradingSignal
    \/ CalcSendWelcomeMessage
    \/ CalcNextThursday
    \/ CalcAnalyze
    \/ CalcStrike
    \/ CalcActiveSignals
    \/ CalcTargetStop

\* One call of a service function from the initial state
CalcSpec == Init /\ [][CalcNext]_vars

----------------------------------------------------------------------------
(* Notions the properties share *)

SentCount(s, u) ==
    CopiesIn([signal |-> s, user |-> u, active |-> TRUE], attempts)
        + CopiesIn([signal |-> s, user |-> u, active |-> FALSE], attempts)

SubscriberIds == {whatsappUsers[i].id : i \in 1..Len(whatsappUsers)}

Signal(i) == tradingSignals[CHOOSE k \in 1..Len(tradingSignals) : tradingSignals[k].id = i]

HasSignal(i) == \E k \in 1..Len(tradingSignals) : tradingSignals[k].id = i

InFanout(cy) == cy.pc \in {"fanout", "awaitSend"}

\* Recipients of the fan-out of cy for which sendTradingSignal was called
Attempted(cy) == IF cy.pc = "awaitSend" THEN cy.idx ELSE cy.idx - 1

----------------------------------------------------------------------------
(* C2: every signal persisted with confidence >= 90 gets exactly one       *)
(* sendTradingSignal call for each subscriber that is active when its      *)
(* fan-out starts, and its whatsappSent flag goes from false to true once: *)
(* it is set after the last call and never reset.                          *)

\* While a fan-out runs, the calls made for its signal are one for each of
\* the first recipients and none for anybody else
C2_FanoutProgress ==
    \A c \in 1..Len(cycles) :
        InFanout(cycles[c]) =>
            LET cy == cycles[c]
            IN /\ HasSignal(cy.saved)
               /\ Signal(cy.saved).confidence >= 90
               /\ ~Signal(cy.saved).whatsappSent
               /\ \A j \in 1..Len(cy.recipients) :
                    SentCount(cy.saved, cy.recipients[j].id) =
                        (IF j <= Attempted(cy) THEN 1 ELSE 0)
               /\ \A j, k \in 1..Len(cy.recipients) :
                    cy.recipients[j].id = cy.recipients[k].id => j = k
               /\ \A u \in SubscriberIds :
                    (\A j \in 1..Len(cy.recipients) : cy.recipients[j].id # u)
                        => SentCount(cy.saved, u) = 0

\* A signal of confidence >= 90 is either being fanned out or marked
C2_HighIsHandled ==
    \A k \in 1..Len(tradingSignals) :
        tradingSignals[k].confidence >= 90 =>
            \/ tradingSignals[k].whatsappSent
            \/ \E c \in 1..Len(cycles) :
                 InFanout(cycles[c]) /\ cycles[c].saved = tradingSignals[k].id

\* The fan-out of a new signal starts with the subscribers active then;
\* the flag is set only when every recipient has been called; once set it
\* stays set and no further call is made for the signal
C2_Step ==
    /\ \A c \in 1..Len(cycles) :
         (~InFanout(cycles[c]) /\ InFanout(cycles'[c])) =>
            /\ cycles'[c].saved = currentSignalId
            /\ {cycles'[c].recipients[j].id : j \in 1..Len(cycles'[c].recipients)}
                 = ActiveIds
    /\ \A k \in 1..Len(tradingSignals) :
         /\ (~tradingSignals[k].whatsappSent /\ tradingSignals'[k].whatsappSent) =>
               \E c \in 1..Len(cycles) :
                  /\ cycles[c].pc = "fanout"
                  /\ cycles[c].saved = tradingSignals[k].id
                  /\ Attempted(cycles[c]) = Len(cycles[c].recipients)
         /\ tradingSignals[k].whatsappSent =>
               /\ tradingSignals'[k].whatsappSent
               /\ \A u \in SubscriberIds :
                    SentCount(tradingSignals[k].id, u)' = SentCount(tradingSignals[k].id, u)

\* C2: in every state a running fan-out has made exactly one call for each
\* recipient it has passed and none otherwise, every step starts a fan-out
\* with the active subscribers and keeps a set flag and its call counts, and
\* every stored signal of confidence >= 90 is eventually marked.
C2_Theorem ==
    /\ [](C2_FanoutProgress /\ C2_HighIsHandled)
    /\ [][C2_Step]_vars
    /\ \A i \in 1..MaxSignals :
         (HasSignal(i) /\ Signal(i).confidence >= 90)
            ~> (HasSignal(i) /\ Signal(i).whatsappSent)

\* A signal of confidence >= 90 is marked after two subscribers were called
C2_Witness ==
    \E k \in 1..Len(tradingSignals) :
        /\ tradingSignals[k].confidence >= 90
        /\ tradingSignals[k].whatsappSent
        /\ Cardinality({u \in SubscriberIds : SentCount(tradingSignals[k].id, u) = 1}) >= 2

----------------------------------------------------------------------------
(* Properties of the request handlers (Spec).  Every step of Spec is a     *)
(* step of a request handler and resp is the response it sent: none in the *)
(* step of a POST that has gone to wait for its welcome fetch.              *)

Occurrences(list, phoneNumber) ==
    Cardinality({i \in 1..Len(list) : list[i].phoneNumber = phoneNumber})

ValidPhones == {p \in PhoneSet : AcceptedPattern(p)}

\* C1: directly after a successful add of a valid phone number the
\* subscriber list contains it exactly once, and directly after a
\* successful remove the list does not contain it.
C1_Claim ==
    /\ (resp.op = "addUser" /\ resp.status = 200 /\ resp.arg \in ValidPhones)
          => Occurrences(getAllWhatsappUsers(whatsappUsers), resp.arg) = 1
    /\ (resp.op = "removeUser" /\ resp.status = 200 /\ resp.arg \in ValidPhones)
          => Occurrences(getAllWhatsappUsers(whatsappUsers), resp.arg) = 0

\* C4: login answers 200 with the seeded user and sets req.session when
\* username and password are those of the seeded account, and answers 401
\* and sets no session for every other pair.
C4_Theorem ==
    resp.op = "login" =>
        IF resp.arg = <<"admin", "admin">>
        THEN /\ resp.status = 200
             /\ resp.user = [userId |-> 1, username |-> "admin"]
             /\ reqSession = [userId |-> 1, username |-> "admin"]
        ELSE /\ resp.status = 401
             /\ resp.user = NoSession
             /\ reqSession = NoSession

\* A login with the seeded credentials was answered
C4_Witness ==
    /\ resp.op = "login"
    /\ resp.arg = <<"admin", "admin">>
    /\ resp.status = 200
    /\ reqSession.userId = 1

\* C5: an add request whose phone number does not match the accepted
\* pattern is answered 400 and no subscriber with such a number is stored.
C5_Claim ==
    /\ (resp.op = "addUser" /\ resp.arg \in PhoneSet /\ ~AcceptedPattern(resp.arg))
          => resp.status = 400
    /\ \A i \in 1..Len(whatsappUsers) : AcceptedPattern(whatsappUsers[i].phoneNumber)

\* C7: no two subscriber records, active or not, have the same phone number.
C7_Claim ==
    \A i, j \in 1..Len(whatsappUsers) :
        whatsappUsers[i].phoneNumber = whatsappUsers[j].phoneNumber => i = j

\* C10: GET /api/auth/me answers 200 with the logged-in user after a
\* successful login and before the next logout, and 401 otherwise.
C10_Claim ==
    resp.op = "me" =>
        IF loggedIn
        THEN resp.status = 200 /\ resp.user = [userId |-> 1, username |-> "admin"]
        ELSE resp.status = 401

----------------------------------------------------------------------------
(* Properties of the store under every caller (StoreSpec) *)

StrictlyIncreasingIds(store, nextId) ==
    /\ \A i, j \in 1..Len(store) : i < j => store[i].id < store[j].id
    /\ \A i \in 1..Len(store) : store[i].id >= 1 /\ store[i].id < nextId

KeepsIds(store, storeNext) ==
    /\ Len(storeNext) >= Len(store)
    /\ \A i \in 1..Len(store) : storeNext[i].id = store[i].id

\* A step removes no record and lowers no allocator; a step that stores a
\* record stores one, under the identifier the allocator held, and moves
\* the allocator one up
HandsOut(store, storeNext, nextId, nextIdNext) ==
    /\ Len(storeNext) >= Len(store)
    /\ nextIdNext >= nextId
    /\ Len(storeNext) > Len(store) =>
         /\ Len(storeNext) = Len(store) + 1
         /\ storeNext[Len(storeNext)].id = nextId
         /\ nextIdNext = nextId + 1

\* C8: for users, subscribers, signals and positions, every step that
\* stores a record hands out the value of the allocator of its type and
\* moves the allocator one up, and no step removes a record or lowers an
\* allocator: the identifiers handed out are pairwise distinct and strictly
\* increasing in creation order, and none is handed out twice.  For users,
\* subscribers and signals the stored records keep the identifiers they
\* were given (updatePortfolioPosition can overwrite the id property of a
\* stored position, which hands out nothing).
C8_Theorem ==
    /\ [](/\ StrictlyIncreasingIds(users, currentUserId)
          /\ StrictlyIncreasingIds(whatsappUsers, currentWhatsappUserId)
          /\ StrictlyIncreasingIds(tradingSignals, currentSignalId)
          /\ Len(portfolioPositions) = currentPositionId - 1)
    /\ [][/\ HandsOut(users, users', currentUserId, currentUserId')
          /\ HandsOut(whatsappUsers, whatsappUsers',
                      currentWhatsappUserId, currentWhatsappUserId')
          /\ HandsOut(tradingSignals, tradingSignals',
                      currentSignalId, currentSignalId')
          /\ HandsOut(portfolioPositions, portfolioPositions',
                      currentPositionId, currentPositionId')
          /\ KeepsIds(users, users')
          /\ KeepsIds(whatsappUsers, whatsappUsers')
          /\ KeepsIds(tradingSignals, tradingSignals')]_vars

\* Two users, two subscribers, a position whose id property an update has
\* overwritten and two signals of two overlapping cycles are stored
C8_Witness ==
    /\ Len(users) >= 2
    /\ Len(portfolioPositions) >= 1
    /\ portfolioPositions[1].id # 1
    /\ Len(whatsappUsers) >= 2
    /\ Len(tradingSignals) >= 2
    /\ Len(cycles) >= 2
    /\ \E c \in 1..Len(cycles) : cycles[c].pc = "awaitSend"

\* Every record of the list is active, and a record is in the list as often
\* as it is stored (two stored positions can agree in every property)
ReturnsExactlyActive(list, store) ==
    /\ \A i \in 1..Len(list) : list[i].isActive
    /\ \A x \in {list[i] : i \in 1..Len(list)}
                \cup {store[k] : k \in {j \in 1..Len(store) : store[j].isActive}} :
         Cardinality({i \in 1..Len(list) : list[i] = x})
            = Cardinality({k \in 1..Len(store) : store[k] = x})

\* C9: in every state, getAllWhatsappUsers, getAllActiveSignals and
\* getAllPortfolioPositions return exactly the stored records whose active
\* flag is set: no inactive record, and every active record as often as it
\* is stored.
C9_Theorem ==
    /\ ReturnsExactlyActive(getAllWhatsappUsers(whatsappUsers), whatsappUsers)
    /\ ReturnsExactlyActive(getAllActiveSignals(tradingSignals), tradingSignals)
    /\ ReturnsExactlyActive(getAllPortfolioPositions(portfolioPositions),
                            portfolioPositions)

\* A removed and an active subscriber, a closed position and two signals
\* are stored
C9_Witness ==
    /\ \E i \in 1..Len(portfolioPositions) : ~portfolioPositions[i].isActive
    /\ \E i, j \in 1..Len(whatsappUsers) :
         ~whatsappUsers[i].isActive /\ whatsappUsers[j].isActive
    /\ Len(tradingSignals) >= 2
    /\ Len(getAllWhatsappUsers(whatsappUsers)) < Len(whatsappUsers)

----------------------------------------------------------------------------
(* Properties of single service calls (CalcSpec) *)

\* C3: the confidence of a signal is an integer from 60 to 98, for every
\* combination of the four bonuses and every jitter from -10 to 9.
C3_Theorem ==
    calc.fn = "confidence" => calc.confidence \in 60..98

\* All four bonuses and the largest jitter: 60 + 40 + 9 is cut to 98
C3_Witness ==
    /\ calc.fn = "confidence"
    /\ calc.strength > 7000
    /\ calc.momentum > 7000
    /\ calc.volume > 2000000
    /\ calc.volatility < 2000
    /\ calc.jitter = 9
    /\ calc.confidence = 98

\* C6: the result of getOptionsChain(strikes) has an entry for every
\* requested strike, with live and with synthetic data.
C6_Claim ==
    calc.fn = "getOptionsChain" =>
        \A i \in 1..Len(calc.strikes) :
            \E key \in calc.result.keys :
                key[1] \in {"CE", "PE"} /\ key[2] = calc.strikes[i]

----------------------------------------------------------------------------
(* Access control of the data endpoints (Spec) *)

DataOps == {"listUsers", "addUser", "removeUser", "listSignals", "listPositions",
            "overview", "nifty", "optionsChain", "summary"}

\* C11: a request to a data endpoint made while nobody is logged in is
\* rejected (401 or 403).
C11_Claim ==
    (resp.op \in DataOps /\ ~loggedIn) => resp.status \in {401, 403}

----------------------------------------------------------------------------
(* Signals below the notification threshold (GenSpec) *)

\* C12: a stored signal of confidence below 90 is not marked as sent and no
\* sendTradingSignal call was made for it; so a marked signal has
\* confidence >= 90.
C12_Theorem ==
    \A k \in 1..Len(tradingSignals) :
        tradingSignals[k].confidence < 90 =>
            /\ ~tradingSignals[k].whatsappSent
            /\ \A u \in SubscriberIds : SentCount(tradingSignals[k].id, u) = 0
            /\ \A c \in 1..Len(cycles) : cycles[c].saved # tradingSignals[k].id

\* A signal of confidence 89 is stored beside a marked one that was sent
\* to a subscriber, and every cycle is through
C12_Witness ==
    /\ \E k \in 1..Len(tradingSignals) : tradingSignals[k].confidence = 89
    /\ \E k \in 1..Len(tradingSignals) :
         /\ tradingSignals[k].whatsappSent
         /\ \E u \in SubscriberIds : SentCount(tradingSignals[k].id, u) = 1
    /\ \A c \in 1..Len(cycles) : cycles[c].pc = "done"

----------------------------------------------------------------------------
(* Removal of an unknown subscriber (Spec).  Records are never deleted, so *)
(* a phone number was never added exactly if no record holds it.           *)

\* C13: a DELETE whose phoneNumber parameter is held by no subscriber record
\* is answered 404.
C13_Claim ==
    (/\ resp.op = "removeUser"
     /\ \A i \in 1..Len(whatsappUsers) : whatsappUsers[i].phoneNumber # resp.arg)
        => resp.status = 404

----------------------------------------------------------------------------
(* The index quote without market-data credentials (Spec) *)

\* C14: without market-data credentials GET /api/market/nifty answers, in
\* every state of the store and after every sequence of requests, the one
\* quote whose price is the mock baseline 19845.30.
C14_Theorem ==
    (resp.op = "nifty" /\ ~zerodhaLive) =>
        /\ resp.status = 200
        /\ resp.body = [kind |-> "mockQuote", keys |-> {<<"token", 256265>>},
                        last_price |-> 198453]

\* The quote was asked for after a login, with a subscriber and a removed
\* subscriber in the store
C14_Witness ==
    /\ resp.op = "nifty"
    /\ ~zerodhaLive
    /\ resp.body.last_price = 198453
    /\ loggedIn
    /\ \E i, j \in 1..Len(whatsappUsers) :
         whatsappUsers[i].isActive /\ ~whatsappUsers[j].isActive

----------------------------------------------------------------------------
(* The life of a signal record (DataSpec) *)

\* What a step may do to the signal records: keep every record in place
\* with every field but whatsappSent as it was, keep a set flag set, and add
\* a record only in the save loop of a generator cycle
C15_Step ==
    /\ Len(tradingSignals') >= Len(tradingSignals)
    /\ \A k \in 1..Len(tradingSignals) :
         /\ [tradingSignals'[k] EXCEPT !.whatsappSent = FALSE]
               = [tradingSignals[k] EXCEPT !.whatsappSent = FALSE]
         /\ tradingSignals[k].whatsappSent => tradingSignals'[k].whatsappSent
    /\ Len(tradingSignals') > Len(tradingSignals) =>
         /\ Len(tradingSignals') = Len(tradingSignals) + 1
         /\ running # 0
         /\ running \in 1..Len(cycles)
         /\ cycles[running].pc = "loop"
         /\ resp' = NoResp

\* C15: every stored signal is active, and every step keeps each signal
\* record but for its whatsappSent flag, never resets that flag, never
\* removes a record, and adds one only as a step of a generator cycle, not
\* as a request.
C15_Theorem ==
    /\ [](\A k \in 1..Len(tradingSignals) : tradingSignals[k].isActive)
    /\ [][C15_Step]_vars

\* GET /api/signals has answered with two signals, one of them marked
C15_Witness ==
    /\ resp.op = "listSignals"
    /\ Len(resp.body) = 2
    /\ \E k \in 1..Len(tradingSignals) : tradingSignals[k].whatsappSent
    /\ \E k \in 1..Len(tradingSignals) : ~tradingSignals[k].whatsappSent

----------------------------------------------------------------------------
(* Results of the message sender (CalcSpec) *)

\* C16: sendTradingSignal and sendWelcomeMessage do not throw and their
\* result has success: true, whatever the credentials and the outcome of
\* the remote call.
C16_Claim ==
    calc.fn \in {"sendTradingSignal", "sendWelcomeMessage"} =>
        /\ ~calc.call.threw
        /\ "success" \in calc.call.result.keys
        /\ calc.call.result.success = "true"

\* C16, as the code has it: neither function throws; the result has
\* success: true without credentials and when the remote call fails (non-OK
\* status, network failure, a body that does not parse), and is the remote
\* service's response body when the call is accepted.
C16_Theorem ==
    calc.fn \in {"sendTradingSignal", "sendWelcomeMessage"} =>
        /\ ~calc.call.threw
        /\ IF calc.live /\ calc.outcome = "ok" /\ calc.body = "receipt"
           THEN calc.call.result \in RemoteReceipts
           ELSE /\ "success" \in calc.call.result.keys
                /\ calc.call.result.success = "true"

\* A send with credentials failed on the network and reported success
C16_Witness ==
    /\ calc.fn = "sendTradingSignal"
    /\ calc.live
    /\ calc.outcome = "networkError"
    /\ calc.call.result.kind = "caught"
    /\ calc.call.result.success = "true"

----------------------------------------------------------------------------
(* Fallback of the market-data accessor (CalcSpec) *)

\* C17: when credentials are configured and the remote call fails, the
\* result of getNiftyQuote is an index quote and the result of
\* getOptionsChain is a set of option entries, as a live result is.
C17_Claim ==
    (calc.fn \in {"getNiftyQuote", "getOptionsChain"} /\ calc.live
        /\ calc.outcome \in {"notOk", "networkError"}) =>
        /\ calc.result.keys # {}
        /\ calc.fn = "getNiftyQuote" =>
             \A key \in calc.result.keys : key[1] = "token"
        /\ calc.fn = "getOptionsChain" =>
             \A key \in calc.result.keys : key[1] \in {"CE", "PE"}

----------------------------------------------------------------------------
(* A failed generation cycle (GenSpec).  The one step of a cycle that can  *)
(* throw is the read of the quote: Object.values of a response without a   *)
(* data field.                                                             *)

\* The step in which a cycle fails changes neither the store nor the
\* record of sends and leaves the event loop idle; a failed cycle takes no
\* further step
C18_Step ==
    \A c \in 1..Len(cycles) :
        /\ (~cycles[c].error /\ cycles'[c].error) =>
              /\ UNCHANGED storeVars
              /\ attempts' = attempts
              /\ running' = 0
              /\ Len(cycles') = Len(cycles)
        /\ cycles[c].error => cycles'[c] = cycles[c]

\* C18: a cycle that has failed is through; its failure leaves every stored
\* record as it is and the event loop free, the failed cycle is not run
\* again, and a timer tick after it starts a new cycle.
C18_Theorem ==
    /\ [](\A c \in 1..Len(cycles) : cycles[c].error => cycles[c].pc = "done")
    /\ [][C18_Step]_vars
    /\ []((/\ \E c \in 1..Len(cycles) : cycles[c].error
           /\ running = 0
           /\ Len(cycles) < MaxCycles
           /\ Capacity >= 1) => ENABLED Tick)

\* After a failed first cycle a second cycle has stored a signal and ended
C18_Witness ==
    /\ Len(cycles) >= 2
    /\ cycles[1].error
    /\ ~cycles[2].error
    /\ cycles[2].pc = "done"
    /\ Len(tradingSignals) >= 1

----------------------------------------------------------------------------
(* Timer ticks beside a running fan-out (GenSpec) *)

\* C19: whenever the event loop is idle a timer tick starts a new cycle (as
\* far as the bounds of the model have room for one), whatever the earlier
\* cycles are waiting for; the new cycle is added behind the earlier ones
\* and changes none of them.
C19_Theorem ==
    /\ []((running = 0 /\ Len(cycles) < MaxCycles /\ Capacity >= 1) => ENABLED Tick)
    /\ [][Len(cycles') # Len(cycles) =>
            /\ Len(cycles') = Len(cycles) + 1
            /\ cycles'[Len(cycles')].pc \in {"awaitQuote", "loop"}
            /\ \A c \in 1..Len(cycles) : cycles'[c] = cycles[c]]_vars

\* Two cycles wait on a send of their fan-outs at the same time
C19_Witness ==
    /\ Len(cycles) = 2
    /\ cycles[1].pc = "awaitSend"
    /\ cycles[2].pc = "awaitSend"
    /\ cycles[1].saved # cycles[2].saved

----------------------------------------------------------------------------
(* Portfolio positions at run time (DataSpec) *)

\* C20: under the requests and the generator cycles the position map is
\* empty and its allocator untouched in every state, GET
\* /api/portfolio/positions answers the empty list and GET
\* /api/portfolio/summary answers 0 active positions and a total P&L of 0.00.
C20_Theorem ==
    /\ portfolioPositions = <<>>
    /\ currentPositionId = 1
    /\ resp.op = "listPositions" => (resp.status = 200 /\ resp.body = <<>>)
    /\ resp.op = "summary" =>
         /\ resp.status = 200
         /\ resp.body.activePositions = 0
         /\ resp.body.totalPnl = 0
         /\ resp.body.positions = <<>>

\* The summary was asked for with a subscriber and two signals stored
C20_Witness ==
    /\ resp.op = "summary"
    /\ resp.body.activePositions = 0
    /\ Len(whatsappUsers) >= 1
    /\ Len(tradingSignals) >= 2

----------------------------------------------------------------------------
(* The expiry of a signal (CalcSpec) *)

\* The days from a moment to the earliest Thursday 15:30 that is later
DaysToNextExpiry(today) ==
    CHOOSE d \in 0..7 :
        /\ (today.day + d) % 7 = 4
        /\ d > 0 \/ today.minute < 15 * 60 + 30
        /\ \A e \in 0..(d - 1) :
             ~((today.day + e) % 7 = 4 /\ (e > 0 \/ today.minute < 15 * 60 + 30))

\* C21: for every weekday and time of day of generation the expiry is the
\* earliest Thursday 15:30 that is later than the moment of generation.
C21_Claim ==
    calc.fn = "getNextThursday" =>
        /\ calc.result.minute = 15 * 60 + 30
        /\ calc.result.days = DaysToNextExpiry(calc.today)

----------------------------------------------------------------------------
(* The signals of one cycle (UncappedSpec) *)

CreatedByCycles == SumSeq([c \in 1..Len(cycles) |-> cycles[c].created])

\* A cycle that has returned from its save loop, not from its catch block
Completed(cy) == cy.pc = "done" /\ ~cy.error

\* The stored signals are kept, in place, and signals are only added
C22_Step ==
    /\ Len(tradingSignals') >= Len(tradingSignals)
    /\ \A i \in 1..Len(tradingSignals) : tradingSignals'[i].id = tradingSignals[i].id

\* C22: every cycle that completes without an error has persisted at least
\* 1 and at most 3 new signals (the stored signals are exactly those the
\* cycles created), and the number of stored signals never decreases.
C22_Theorem ==
    /\ [](/\ \A c \in 1..Len(cycles) :
                Completed(cycles[c]) => cycles[c].created \in 1..3
          /\ CreatedByCycles = Len(tradingSignals))
    /\ [][C22_Step]_vars

\* A cycle has completed with three signals persisted
C22_Witness ==
    \E c \in 1..Len(cycles) :
        /\ Completed(cycles[c])
        /\ cycles[c].created = 3
        /\ Len(tradingSignals) = 3

----------------------------------------------------------------------------
(* The trend classes (CalcSpec) *)

\* Some indicators calculateTechnicalIndicators produces are classified t
TrendOccurs(t) ==
    \E quote \in CalcQuotes, d \in TrendDraws :
        analyzeMarketConditions(calculateTechnicalIndicators(quote, d), d).trend = t

\* C23: the trend is bullish when RSI > 55 and SMA20 > SMA50, bearish when
\* RSI < 45 and SMA20 < SMA50 and sideways otherwise, and each of the three
\* classes occurs for some indicators calculateTechnicalIndicators produces.
C23_Claim ==
    calc.fn = "analyzeMarketConditions" =>
        /\ calc.trend = "bullish" <=> (calc.rsi > 5500 /\ calc.sma20 > calc.sma50)
        /\ calc.trend = "bearish" <=> (calc.rsi < 4500 /\ calc.sma20 < calc.sma50)
        /\ calc.trend \in {"bullish", "bearish", "sideways"}
        /\ \A t \in {"bullish", "bearish", "sideways"} : TrendOccurs(t)

----------------------------------------------------------------------------
(* The strike of a signal (CalcSpec) *)

\* C24: the base strike is the multiple of 50 nearest to the price (prices
\* in tenths of a rupee), the strike of a signal is read inside the ladder
\* of five strikes around it, a CALL gets base + 50 or base + 100 and a PUT
\* gets base or base - 50.
C24_Theorem ==
    calc.fn = "strike" =>
        /\ calc.baseStrike % 50 = 0
        /\ 10 * calc.baseStrike - calc.price \in -250..250
        /\ Len(calc.strikes) = 5
        /\ calc.strikePrice # 0
        /\ calc.strikePrice \in SeqToSet(calc.strikes)
        /\ calc.strikes = <<calc.baseStrike - 100, calc.baseStrike - 50,
                            calc.baseStrike, calc.baseStrike + 50,
                            calc.baseStrike + 100>>
        /\ calc.type = "CALL" =>
             calc.strikePrice \in {calc.baseStrike + 50, calc.baseStrike + 100}
        /\ calc.type = "PUT" =>
             calc.strikePrice \in {calc.baseStrike, calc.baseStrike - 50}

\* A price of 19824.9, just below the middle of two multiples, with the
\* farthest call strike
C24_Witness ==
    /\ calc.fn = "strike"
    /\ calc.price = 198249
    /\ calc.baseStrike = 19800
    /\ calc.type = "CALL"
    /\ calc.strikePrice = 19900

----------------------------------------------------------------------------
(* The order of storing, sending and marking (DataSpec) *)

Listed(list, s) == \E i \in 1..Len(list) : list[i] = s

\* A call of sendTradingSignal is made for a signal that is stored, listed
\* by getAllActiveSignals and not marked
C25_SendAfterStore ==
    \A a \in BagToSet(attempts') :
        CopiesIn(a, attempts') > CopiesIn(a, attempts) =>
            /\ HasSignal(a.signal)
            /\ ~Signal(a.signal).whatsappSent
            /\ Listed(getAllActiveSignals(tradingSignals), Signal(a.signal))

\* The flag of a signal is set by the cycle that fans it out, when a call
\* has been made for every recipient of the fan-out
C25_MarkAfterSends ==
    \A k \in 1..Len(tradingSignals) :
        (~tradingSignals[k].whatsappSent /\ tradingSignals'[k].whatsappSent) =>
            /\ running \in 1..Len(cycles)
            /\ cycles[running].pc = "fanout"
            /\ cycles[running].saved = tradingSignals[k].id
            /\ \A j \in 1..Len(cycles[running].recipients) :
                 SentCount(tradingSignals[k].id, cycles[running].recipients[j].id) = 1

\* A signal is created unmarked by a cycle that is in no fan-out, and every
\* unmarked signal of confidence >= 90 stored then is in the fan-out of
\* another cycle
C25_CreateAfterMark ==
    Len(tradingSignals') > Len(tradingSignals) =>
        /\ Len(tradingSignals') = Len(tradingSignals) + 1
        /\ ~tradingSignals'[Len(tradingSignals')].whatsappSent
        /\ running \in 1..Len(cycles)
        /\ ~InFanout(cycles[running])
        /\ cycles[running].saved = 0
        /\ \A k \in 1..Len(tradingSignals) :
             (tradingSignals[k].confidence >= 90 /\ ~tradingSignals[k].whatsappSent) =>
                \E c \in 1..Len(cycles) :
                    /\ c # running
                    /\ InFanout(cycles[c])
                    /\ cycles[c].saved = tradingSignals[k].id

\* C25: a signal is stored, and listed by GET /api/signals with
\* whatsappSent = false, before any send for it is attempted; its flag is
\* set only after a send has been attempted for every subscriber of its
\* fan-out; the cycle creates its next signal only after that.
C25_Theorem ==
    /\ [](/\ C2_HighIsHandled
          /\ resp.op = "listSignals" =>
                \A k \in 1..Len(tradingSignals) : Listed(resp.body, tradingSignals[k]))
    /\ [][C25_SendAfterStore /\ C25_MarkAfterSends /\ C25_CreateAfterMark]_vars

\* GET /api/signals lists an unmarked signal while the first send of its
\* fan-out is awaited, and an earlier signal of the run is marked
C25_Witness ==
    /\ resp.op = "listSignals"
    /\ \E c \in 1..Len(cycles) :
         /\ cycles[c].pc = "awaitSend"
         /\ cycles[c].idx = 1
         /\ \E i \in 1..Len(resp.body) :
              /\ resp.body[i].id = cycles[c].saved
              /\ ~resp.body[i].whatsappSent
         /\ \E i \in 1..Len(resp.body) :
              /\ resp.body[i].id < cycles[c].saved
              /\ resp.body[i].whatsappSent

----------------------------------------------------------------------------
(* The recipients of a fan-out under subscriber requests (GenSpec) *)

RecipientIds(cy) == {cy.recipients[j].id : j \in 1..Len(cy.recipients)}

\* A fan-out starts with the records that are active then
C26_Start ==
    \A c \in 1..Len(cycles) :
        (~InFanout(cycles[c]) /\ InFanout(cycles'[c])) =>
            /\ cycles'[c].recipients = SelectSeq(whatsappUsers, LAMBDA u : u.isActive)
            /\ RecipientIds(cycles'[c]) = ActiveIds

\* While a fan-out runs, no request changes its recipients
C26_Keep ==
    \A c \in 1..Len(cycles) :
        (InFanout(cycles[c]) /\ InFanout(cycles'[c])) =>
            cycles'[c].recipients = cycles[c].recipients

\* A call is made for the next recipient of the running fan-out, whatever
\* the stored flag of that subscriber is by then
C26_Send ==
    \A a \in BagToSet(attempts') :
        CopiesIn(a, attempts') > CopiesIn(a, attempts) =>
            /\ running \in 1..Len(cycles)
            /\ cycles[running].pc = "fanout"
            /\ a.signal = cycles[running].saved
            /\ a.user = cycles[running].recipients[cycles[running].idx].id
            /\ CopiesIn(a, attempts') = CopiesIn(a, attempts) + 1

\* When the signal is marked, the subscribers called for it are the
\* recipients of its fan-out, once each
C26_Mark ==
    \A k \in 1..Len(tradingSignals) :
        (~tradingSignals[k].whatsappSent /\ tradingSignals'[k].whatsappSent) =>
            /\ running \in 1..Len(cycles)
            /\ cycles[running].saved = tradingSignals[k].id
            /\ \A u \in SubscriberIds :
                 SentCount(tradingSignals[k].id, u) =
                    (IF u \in RecipientIds(cycles[running]) THEN 1 ELSE 0)

\* C26: the recipients of a signal are exactly the subscribers that were
\* active when its fan-out started, under every interleaving of add and
\* remove requests with the fan-out: one removed meanwhile is still called,
\* one added meanwhile is not.
C26_Theorem ==
    /\ []C2_FanoutProgress
    /\ [][C26_Start /\ C26_Keep /\ C26_Send /\ C26_Mark]_vars

\* A signal is marked after a call to a subscriber who had been removed
\* during the fan-out, before that call
C26_Witness ==
    \E k \in 1..Len(tradingSignals) :
        /\ tradingSignals[k].whatsappSent
        /\ \E u \in SubscriberIds :
             /\ CopiesIn([signal |-> tradingSignals[k].id, user |-> u,
                          active |-> FALSE], attempts) = 1
             /\ u \notin ActiveIds

----------------------------------------------------------------------------
(* A second registration of an active number (Spec) *)

\* The request just answered was a POST that arrived in this step (no
\* handler that had been waiting has gone on), for the number of a
\* subscriber who was active when it arrived
C27_Duplicate ==
    /\ resp'.op = "addUser"
    /\ posts' = posts
    /\ \E i \in 1..Len(whatsappUsers) :
         whatsappUsers[i].isActive /\ whatsappUsers[i].phoneNumber = resp'.arg

\* C27: POST /api/whatsapp/users with the phone number of a currently
\* active subscriber is answered 400 'Phone number already registered',
\* stores no record, leaves the identifier allocator as it is and sends no
\* welcome message.
C27_Theorem ==
    [][C27_Duplicate =>
          /\ resp'.status = 400
          /\ resp'.body = <<"Phone number already registered">>
          /\ whatsappUsers' = whatsappUsers
          /\ currentWhatsappUserId' = currentWhatsappUserId
          /\ welcomed' = welcomed]_vars

\* A registered number was posted again and refused while the allocator
\* had an identifier left
C27_Witness ==
    /\ resp.op = "addUser"
    /\ resp.status = 400
    /\ Len(whatsappUsers) = 1
    /\ whatsappUsers[1].isActive
    /\ whatsappUsers[1].phoneNumber = resp.arg
    /\ currentWhatsappUserId = 2
    /\ currentWhatsappUserId <= MaxSubscribers
    /\ Len(welcomed) = 1

----------------------------------------------------------------------------
(* The order of the listed signals (CalcSpec) *)

\* C28: getAllActiveSignals returns the active signals newest first: of two
\* returned signals the one with the strictly later creation time stands
\* earlier, so no signal behind the first three entries is newer than one
\* of them.
C28_Theorem ==
    calc.fn = "getAllActiveSignals" =>
        /\ ReturnsExactlyActive(calc.result, calc.store)
        /\ \A i, j \in 1..Len(calc.result) :
             calc.result[i].createdAt > calc.result[j].createdAt => i < j
        /\ \A i \in 1..Min(3, Len(calc.result)), j \in 4..Len(calc.result) :
             calc.result[i].createdAt >= calc.result[j].createdAt

\* Four signals, the first two created at the same time: the last two come
\* first and the first two keep their order behind them
C28_Witness ==
    /\ calc.fn = "getAllActiveSignals"
    /\ Len(calc.result) = 4
    /\ calc.result[1].id = 4
    /\ calc.result[2].id = 3
    /\ calc.result[3].id = 1
    /\ calc.result[4].id = 2
    /\ calc.result[3].createdAt = calc.result[4].createdAt

----------------------------------------------------------------------------
(* The confidence of a sideways cycle (CalcSpec) *)

\* C29: under a sideways trend neither the strength nor the momentum bonus
\* is given and the confidence is at most 60 + 5 + 10 + 9 = 84, below the
\* notification threshold of 90; a confidence of 90 or more has the
\* strength or the momentum bonus and a trend that is not sideways.
C29_Theorem ==
    calc.fn = "confidence" =>
        /\ calc.trend = "sideways" =>
             /\ calc.strength <= 7000
             /\ calc.momentum <= 7000
             /\ calc.confidence <= 84
             /\ calc.confidence < 90
        /\ calc.confidence >= 90 =>
             /\ calc.strength > 7000 \/ calc.momentum > 7000
             /\ calc.trend # "sideways"

\* A sideways trend with the volume and the volatility bonus and the
\* largest jitter: 84
C29_Witness ==
    /\ calc.fn = "confidence"
    /\ calc.trend = "sideways"
    /\ calc.volume > 2000000
    /\ calc.volatility < 2000
    /\ calc.jitter = 9
    /\ calc.confidence = 84

----------------------------------------------------------------------------
(* Target and stop of a signal (CalcSpec) *)

\* C30: the target is the base option price times a factor in [1.5, 2.3),
\* the stop is the same base price times a factor in [0.4, 0.7), and the
\* two prices a signal is stored with are positive, the target strictly
\* above the stop.
C30_Theorem ==
    calc.fn = "targetStop" =>
        /\ calc.basePrice >= 3000 /\ calc.basePrice < 7000
        /\ calc.target >= 1500 * calc.basePrice
        /\ calc.target < 2300 * calc.basePrice
        /\ calc.stop >= 400 * calc.basePrice
        /\ calc.stop < 700 * calc.basePrice
        /\ 1000 * calc.targetPrice - calc.target \in -500..500
        /\ 1000 * calc.stopLoss - calc.stop \in -500..500
        /\ calc.stopLoss > 0
        /\ calc.targetPrice > calc.stopLoss

\* The smallest target, 45.00, with the largest stop of the same base
\* price, 20.91
C30_Witness ==
    /\ calc.fn = "targetStop"
    /\ calc.basePrice = 3000
    /\ calc.targetPrice = 4500
    /\ calc.stopLoss = 2091

====
